---- MODULE Spec2Model ----
(***************************************************************************)
(* The Atom tree of core/atom-class.ts: branches, parent back-pointers,    *)
(* the dirty flag and the queries defined on them.                         *)
(*                                                                         *)
(* Atoms are the numbers 1..NumNodes.  The first Len(AtomKinds) of them    *)
(* are constructed by the caller (new Atom(type)); the others are the      *)
(* 'first' atoms that makeFirstAtom() constructs, in the order in which it *)
(* constructs them.  JavaScript's null and undefined are both written      *)
(* Null (for an atom) or "undefined" (for a treeBranch): the code only     *)
(* tests them for truthiness.                                              *)
(***************************************************************************)
EXTENDS Integers, Sequences, FiniteSets, TLC

\* ------------------------------------------------------------------ bounds
\* the 'first' atoms makeFirstAtom() may construct in one behaviour
MaxFirst == 3
\* the longest branch an insertion may produce
MaxLen == 3
\* the longest list passed to setChildren / addChildren / addChildrenAfter
MaxList == 2
\* the calls of one behaviour
MaxOps == 2
\* the calls of one behaviour of SpecDeep
MaxDeepOps == 3

\* the types of the atoms the caller constructs
AtomKinds == <<"root", "mbin", "mord">>

NumAtoms == Len(AtomKinds)
NumNodes == NumAtoms + MaxFirst
Atoms == 1..NumAtoms
Nodes == 1..NumNodes
Null == 0

\* --------------------------------------------------------- branch addresses
NAMED_BRANCHES == <<"above", "body", "below", "superscript", "subscript">>

\* a [row, col] address
ColRow == "colrow"
Undefined == "undefined"

isNamedBranch(branch) == \E i \in 1..Len(NAMED_BRANCHES) : NAMED_BRANCHES[i] = branch

\* the branch addresses the operations are called with
BranchArgs == {"body", "superscript", ColRow}

\* ------------------------------------------------------------------- state
VARIABLES
    parent,      \* Atom.parent
    treeBranch,  \* Atom.treeBranch
    _isDirty,    \* Atom._isDirty
    branches,    \* Atom.branches: a function from the names that are set
    latex,       \* Atom.latex is a string (the verbatim text the parser recorded)
    _children,   \* Atom._children: the cached list, <<Null>> when there is none
    attrs,       \* the fields the caller sets: value, mode, limits, caret, ...
    id,          \* Atom.id
    call,        \* the last call of Atom.render or Atom.toLatex and its result
    nfirst,      \* how many 'first' atoms makeFirstAtom() has constructed
    nops,        \* how many calls have been made
    lastOp       \* the last call: its name, arguments, outcome and result

vars == <<parent, treeBranch, _isDirty, branches, latex, _children, attrs, id,
          call, nfirst, nops, lastOp>>

\* Atom.type: the type the caller constructed the atom with, that of
\* AtomKinds unless the attributes of the atom name another
type(n) ==
    IF n \notin Atoms THEN "first"
    ELSE IF attrs[n].type # "" THEN attrs[n].type ELSE AtomKinds[n]

\* the atoms that exist
Live == Atoms \cup (NumAtoms + 1)..(NumAtoms + nfirst)

\* the tree as one value, for the operations to transform
Tree ==
    [parent |-> parent, treeBranch |-> treeBranch, dirty |-> _isDirty,
     branches |-> branches, latex |-> latex, children |-> _children,
     nfirst |-> nfirst]

\* ----------------------------------------------------------- JS primitives
Min(a, b) == IF a < b THEN a ELSE b
Max(a, b) == IF a > b THEN a ELSE b

\* Array.prototype.indexOf: 0-based, -1 when absent
IndexOf(s, x) ==
    IF \E i \in 1..Len(s) : s[i] = x
    THEN (CHOOSE i \in 1..Len(s) : s[i] = x /\ \A j \in 1..(i - 1) : s[j] # x) - 1
    ELSE -1

\* Array.prototype.splice(start, deleteCount, ...items): the array afterwards
Splice(s, start, deleteCount, items) ==
    LET from == IF start < 0 THEN Max(Len(s) + start, 0) ELSE Min(start, Len(s))
        del == Min(Max(deleteCount, 0), Len(s) - from)
    IN SubSeq(s, 1, from) \o items \o SubSeq(s, from + del + 1, Len(s))

\* obj[key] = value and obj[key] = null on the branches object
Put(f, k, v) == [x \in (DOMAIN f) \cup {k} |-> IF x = k THEN v ELSE f[x]]
Del(f, k) == [x \in (DOMAIN f) \ {k} |-> f[x]]
NoBranches == [x \in {} |-> <<>>]

Range(s) == {s[i] : i \in 1..Len(s)}

\* a list that is null
NullList == <<Null>>

\* ------------------------------------------------------------ the dirty flag
RECURSIVE Chain(_, _, _)
Chain(par, n, seen) ==
    IF par[n] = Null \/ par[n] \in seen THEN seen
    ELSE Chain(par, par[n], seen \cup {par[n]})

\* the atoms the loop `while (parent)` of the setter visits
ParentChain(par, n) == Chain(par, n, {})

\* the loop `while (parent)` never leaves: the chain has no top
Loops(par, n) == par[n] # Null /\ \A m \in ParentChain(par, n) : par[m] # Null

\* the setter without the walk up the parents
isDirtySet_NoWalk(T, n, dirty) == [T EXCEPT !.dirty[n] = dirty]

\* set isDirty(dirty)
isDirtySet(T, n, dirty) ==
    IF dirty
    THEN [T EXCEPT !.dirty = [m \in Nodes |->
              IF m = n \/ m \in ParentChain(T.parent, n) THEN TRUE ELSE @[m]],
                   !.latex = [m \in Nodes |->
              IF m = n \/ m \in ParentChain(T.parent, n) THEN FALSE ELSE @[m]],
                   !.children = [m \in Nodes |->
              IF m = n \/ m \in ParentChain(T.parent, n) THEN NullList ELSE @[m]]]
    ELSE [T EXCEPT !.dirty[n] = FALSE]

\* ------------------------------------------------------ results of a call
\* st: "ok" the call returned; "throw" it threw a TypeError after the changes
\* in T; "hang" it never returns; "bound" it needs more than the bounds allow
Res(T, st, ret) == [T |-> T, st |-> st, ret |-> ret]

\* makeFirstAtom(branch)
NewFirst(T) == NumAtoms + T.nfirst + 1
makeFirstAtom(T, self, branch) ==
    [T EXCEPT !.parent[NewFirst(T)] = self,
              !.treeBranch[NewFirst(T)] = branch,
              !.nfirst = @ + 1]

\* branch(name)
branch(T, self, name) ==
    IF isNamedBranch(name) /\ name \in DOMAIN T.branches[self]
    THEN T.branches[self][name] ELSE <<>>
hasBranch(T, self, name) ==
    isNamedBranch(name) /\ name \in DOMAIN T.branches[self]

\* createBranch(name)
createBranch(T, self, name) ==
    IF ~isNamedBranch(name) THEN Res(T, "ok", <<>>)
    ELSE IF name \notin DOMAIN T.branches[self] /\ T.nfirst >= MaxFirst
    THEN Res(T, "bound", <<>>)
    ELSE LET T1 == IF name \in DOMAIN T.branches[self] THEN T
                   ELSE [makeFirstAtom(T, self, name) EXCEPT
                            !.branches[self] = Put(@, name, <<NewFirst(T)>>)]
         IN IF Loops(T1.parent, self) THEN Res(T1, "hang", <<>>)
            ELSE Res(isDirtySet(T1, self, TRUE), "ok", T1.branches[self][name])

\* children.forEach((x) => { x.parent = p; x.treeBranch = b; })
Reparent(T, children, p, b) ==
    [T EXCEPT !.parent = [m \in Nodes |-> IF m \in Range(children) THEN p ELSE @[m]],
              !.treeBranch = [m \in Nodes |-> IF m \in Range(children) THEN b ELSE @[m]]]

\* setChildren(children, branch); children is <<Null>> for a null argument
setChildren(T, self, children, name) ==
    IF children = NullList THEN Res(T, "ok", <<>>)
    ELSE IF ~isNamedBranch(name) THEN Res(T, "ok", <<>>)
    ELSE IF T.nfirst >= MaxFirst THEN Res(T, "bound", <<>>)
    ELSE LET T1 == [makeFirstAtom(T, self, name) EXCEPT
                       !.branches[self] = Put(@, name, <<NewFirst(T)>> \o children)]
         IN IF Loops(T1.parent, self) THEN Res(T1, "hang", <<>>)
            ELSE Res(Reparent(isDirtySet(T1, self, TRUE), children, self, name),
                     "ok", <<>>)

\* addChild(child, branch)
addChild(T, self, child, name) ==
    LET c == createBranch(T, self, name)
    IN IF c.st # "ok" THEN c
       ELSE IF isNamedBranch(name) /\ Len(c.ret) >= MaxLen THEN Res(T, "bound", <<>>)
       ELSE LET T1 == IF isNamedBranch(name)
                      THEN [c.T EXCEPT !.branches[self][name] = Append(@, child)]
                      ELSE c.T
            IN IF Loops(T1.parent, self) THEN Res(T1, "hang", <<>>)
               ELSE Res(Reparent(isDirtySet(T1, self, TRUE), <<child>>, self, name),
                        "ok", <<>>)

\* addChildBefore with the index of addChildAfter
addChildBefore_IndexPlus1(T, self, child, before) ==
    LET name == T.treeBranch[before]
        c == createBranch(T, self, name)
    IN IF c.st # "ok" THEN c
       ELSE IF isNamedBranch(name) /\ Len(c.ret) >= MaxLen THEN Res(T, "bound", <<>>)
       ELSE LET T1 == IF isNamedBranch(name)
                      THEN [c.T EXCEPT !.branches[self][name] =
                               Splice(@, IndexOf(@, before) + 1, 0, <<child>>)]
                      ELSE c.T
            IN IF Loops(T1.parent, self) THEN Res(T1, "hang", <<>>)
               ELSE Res(Reparent(isDirtySet(T1, self, TRUE), <<child>>, self, name),
                        "ok", <<>>)

\* addChildBefore(child, before)
addChildBefore(T, self, child, before) ==
    LET name == T.treeBranch[before]
        c == createBranch(T, self, name)
    IN IF c.st # "ok" THEN c
       ELSE IF isNamedBranch(name) /\ Len(c.ret) >= MaxLen THEN Res(T, "bound", <<>>)
       ELSE LET T1 == IF isNamedBranch(name)
                      THEN [c.T EXCEPT !.branches[self][name] =
                               Splice(@, IndexOf(@, before), 0, <<child>>)]
                      ELSE c.T
            IN IF Loops(T1.parent, self) THEN Res(T1, "hang", <<>>)
               ELSE Res(Reparent(isDirtySet(T1, self, TRUE), <<child>>, self, name),
                        "ok", <<>>)

\* addChildAfter(child, after)
addChildAfter(T, self, child, after) ==
    LET name == T.treeBranch[after]
        c == createBranch(T, self, name)
    IN IF c.st # "ok" THEN c
       ELSE IF isNamedBranch(name) /\ Len(c.ret) >= MaxLen THEN Res(T, "bound", <<>>)
       ELSE LET T1 == IF isNamedBranch(name)
                      THEN [c.T EXCEPT !.branches[self][name] =
                               Splice(@, IndexOf(@, after) + 1, 0, <<child>>)]
                      ELSE c.T
            IN IF Loops(T1.parent, self) THEN Res(T1, "hang", <<>>)
               ELSE Res(Reparent(isDirtySet(T1, self, TRUE), <<child>>, self, name),
                        "ok", <<>>)

\* addChildren(children, branch): children.forEach((x) => this.addChild(x, branch))
RECURSIVE addChildren(_, _, _, _)
addChildren(T, self, children, name) ==
    IF children = <<>> THEN Res(T, "ok", <<>>)
    ELSE LET r == addChild(T, self, Head(children), name)
         IN IF r.st # "ok" THEN r
            ELSE addChildren(r.T, self, Tail(children), name)

\* addChildrenAfter(children, after)
addChildrenAfter(T, self, children, after) ==
    LET name == T.treeBranch[after]
        c == createBranch(T, self, name)
    IN IF c.st # "ok" THEN c
       ELSE IF isNamedBranch(name) /\ Len(c.ret) + Len(children) > MaxLen
       THEN Res(T, "bound", <<>>)
       ELSE LET T1 == IF isNamedBranch(name)
                      THEN [c.T EXCEPT !.branches[self][name] =
                               Splice(@, IndexOf(@, after) + 1, 0, children)]
                      ELSE c.T
            IN IF Loops(T1.parent, self) THEN Res(T1, "hang", <<>>)
               ELSE Res(Reparent(isDirtySet(T1, self, TRUE), children, self, name),
                        "ok", <<>>)

\* removeBranch(name)
removeBranch(T, self, name) ==
    IF ~hasBranch(T, self, name)
    THEN \* children is null: children.forEach throws
         Res(T, "throw", <<>>)
    ELSE LET children == T.branches[self][name]
             T1 == Reparent([T EXCEPT !.branches[self] = Del(@, name)],
                            children, Null, Undefined)
         IN IF children = <<>>
            THEN \* children[0].type throws
                 Res(T1, "throw", <<>>)
            ELSE IF Loops(T1.parent, self) THEN Res(T1, "hang", <<>>)
            ELSE Res(isDirtySet(T1, self, TRUE), "ok", Tail(children))

\* removeChild without the test for a 'first' atom
removeChild_AnyType(T, self, child) ==
    IF ~hasBranch(T, self, T.treeBranch[child]) THEN Res(T, "throw", <<>>)
    ELSE LET name == T.treeBranch[child]
             T1 == [T EXCEPT !.branches[self][name] =
                       Splice(@, IndexOf(@, child), 1, <<>>)]
         IN IF Loops(T1.parent, self) THEN Res(T1, "hang", <<>>)
            ELSE Res(Reparent(isDirtySet(T1, self, TRUE), <<child>>, Null, Undefined),
                     "ok", <<>>)

\* removeChild(child)
removeChild(T, self, child) ==
    IF type(child) = "first" THEN Res(T, "ok", <<>>)
    ELSE IF ~hasBranch(T, self, T.treeBranch[child])
    THEN \* branch is null: branch.indexOf throws
         Res(T, "throw", <<>>)
    ELSE LET name == T.treeBranch[child]
             T1 == [T EXCEPT !.branches[self][name] =
                       Splice(@, IndexOf(@, child), 1, <<>>)]
         IN IF Loops(T1.parent, self) THEN Res(T1, "hang", <<>>)
            ELSE Res(Reparent(isDirtySet(T1, self, TRUE), <<child>>, Null, Undefined),
                     "ok", <<>>)

\* ---------------------------------------------------------------- queries
\* hasEmptyBranch(branch)
hasEmptyBranch(T, self, name) ==
    IF ~hasBranch(T, self, name) THEN TRUE
    ELSE Len(T.branches[self][name]) = 1

\* what a call that returns no atom ends with
TypeError == -1
RangeError == -2
Hang == -3

\* getInitialBaseElement(): the atom, TypeError when body[0] or body[1] is
\* undefined, RangeError when the recursion never ends (fuel: the atoms left)
RECURSIVE getInitialBaseElement(_, _, _)
getInitialBaseElement(T, self, fuel) ==
    IF ~hasEmptyBranch(T, self, "body")
    THEN LET body == T.branches[self]["body"]
         IN IF Len(body) < 2 THEN TypeError
            ELSE IF fuel = 0 THEN RangeError
            ELSE getInitialBaseElement(T, body[2], fuel - 1)
    ELSE self

\* the letters of an AtomType
Letters(t) ==
    CASE t = "" -> <<>>
    [] t = "accent" -> <<"a", "c", "c", "e", "n", "t">>
    [] t = "array" -> <<"a", "r", "r", "a", "y">>
    [] t = "box" -> <<"b", "o", "x">>
    [] t = "chem" -> <<"c", "h", "e", "m">>
    [] t = "command" -> <<"c", "o", "m", "m", "a", "n", "d">>
    [] t = "composition" -> <<"c", "o", "m", "p", "o", "s", "i", "t", "i", "o", "n">>
    [] t = "delim" -> <<"d", "e", "l", "i", "m">>
    [] t = "enclose" -> <<"e", "n", "c", "l", "o", "s", "e">>
    [] t = "error" -> <<"e", "r", "r", "o", "r">>
    [] t = "first" -> <<"f", "i", "r", "s", "t">>
    [] t = "genfrac" -> <<"g", "e", "n", "f", "r", "a", "c">>
    [] t = "group" -> <<"g", "r", "o", "u", "p">>
    [] t = "leftright" -> <<"l", "e", "f", "t", "r", "i", "g", "h", "t">>
    [] t = "line" -> <<"l", "i", "n", "e">>
    [] t = "macro" -> <<"m", "a", "c", "r", "o">>
    [] t = "mbin" -> <<"m", "b", "i", "n">>
    [] t = "mclose" -> <<"m", "c", "l", "o", "s", "e">>
    [] t = "minner" -> <<"m", "i", "n", "n", "e", "r">>
    [] t = "mop" -> <<"m", "o", "p">>
    [] t = "mopen" -> <<"m", "o", "p", "e", "n">>
    [] t = "mord" -> <<"m", "o", "r", "d">>
    [] t = "mpunct" -> <<"m", "p", "u", "n", "c", "t">>
    [] t = "mrel" -> <<"m", "r", "e", "l">>
    [] t = "msubsup" -> <<"m", "s", "u", "b", "s", "u", "p">>
    [] t = "none" -> <<"n", "o", "n", "e">>
    [] t = "overlap" -> <<"o", "v", "e", "r", "l", "a", "p">>
    [] t = "overunder" -> <<"o", "v", "e", "r", "u", "n", "d", "e", "r">>
    [] t = "placeholder" -> <<"p", "l", "a", "c", "e", "h", "o", "l", "d", "e", "r">>
    [] t = "phantom" -> <<"p", "h", "a", "n", "t", "o", "m">>
    [] t = "root" -> <<"r", "o", "o", "t">>
    [] t = "rule" -> <<"r", "u", "l", "e">>
    [] t = "sizeddelim" -> <<"s", "i", "z", "e", "d", "d", "e", "l", "i", "m">>
    [] t = "space" -> <<"s", "p", "a", "c", "e">>
    [] t = "spacing" -> <<"s", "p", "a", "c", "i", "n", "g">>
    [] t = "surd" -> <<"s", "u", "r", "d">>
    [] t = "text" -> <<"t", "e", "x", "t">>
    [] t = "textord" -> <<"t", "e", "x", "t", "o", "r", "d">>

\* RegExp.prototype.test for a pattern without metacharacters: pat occurs in str
Occurs(pat, str) ==
    \E i \in 0..(Len(str) - Len(pat)) :
        \A j \in 1..Len(pat) : str[i + j] = pat[j]

\* the alternatives of /minner|mbin|mrel|mpunct|mopen|mclose|textord/
CharacterBoxPattern ==
    {Letters("minner"), Letters("mbin"), Letters("mrel"), Letters("mpunct"),
     Letters("mopen"), Letters("mclose"), Letters("textord")}

\* isCharacterBox() that finds no type in the pattern
isCharacterBox_Never(T, self) ==
    LET base == getInitialBaseElement(T, self, NumNodes)
    IN IF base = TypeError THEN "TypeError"
       ELSE IF base = RangeError THEN "RangeError"
       ELSE "false"

\* isCharacterBox(): "true", "false", or the error the call throws
isCharacterBox(T, self) ==
    LET base == getInitialBaseElement(T, self, NumNodes)
    IN IF base = TypeError THEN "TypeError"
       ELSE IF base = RangeError THEN "RangeError"
       ELSE IF \E pat \in CharacterBoxPattern : Occurs(pat, Letters(type(base)))
       THEN "true" ELSE "false"

\* the elements of the branches in the order of NAMED_BRANCHES.forEach
RECURSIVE BranchElements(_, _, _)
BranchElements(T, self, i) ==
    IF i > Len(NAMED_BRANCHES) THEN <<>>
    ELSE branch(T, self, NAMED_BRANCHES[i]) \o BranchElements(T, self, i + 1)

\* get children(): the list, with the caches it fills on the way; it throws a
\* RangeError when the recursion never ends (fuel: the atoms left)
RECURSIVE get_children(_, _, _)
RECURSIVE childrenPush(_, _, _, _)
childrenPush(T, xs, result, fuel) ==
    IF xs = <<>> THEN Res(T, "ok", result)
    ELSE LET r == get_children(T, Head(xs), fuel)
         IN IF r.st # "ok" THEN r
            ELSE childrenPush(r.T, Tail(xs), result \o r.ret \o <<Head(xs)>>, fuel)
get_children(T, self, fuel) ==
    IF T.children[self] # NullList THEN Res(T, "ok", T.children[self])
    ELSE IF fuel = 0 THEN Res(T, "throw", <<>>)
    ELSE LET r == childrenPush(T, BranchElements(T, self, 1), <<>>, fuel - 1)
         IN IF r.st # "ok" THEN r
            ELSE Res([r.T EXCEPT !.children[self] = r.ret], "ok", r.ret)

\* the second loop of commonAncestor: walk up from n until an atom of `parents`
RECURSIVE WalkUp(_, _, _, _)
WalkUp(par, n, parents, seen) ==
    IF n = Null THEN Null
    ELSE IF n \in parents THEN n
    ELSE IF n \in seen THEN Hang
    ELSE WalkUp(par, par[n], parents, seen \cup {n})

\* commonAncestor with the second walk started at b instead of b.parent
commonAncestor_FromB(T, a, b) ==
    IF a = b THEN T.parent[a]
    ELSE IF T.parent[a] = T.parent[b] THEN T.parent[a]
    ELSE IF Loops(T.parent, a) THEN Hang
    ELSE WalkUp(T.parent, b, ParentChain(T.parent, a), {})

\* Atom.commonAncestor(a, b): an atom, Null, or Hang when a loop never ends
commonAncestor(T, a, b) ==
    IF a = b THEN T.parent[a]
    ELSE IF T.parent[a] = T.parent[b] THEN T.parent[a]
    ELSE IF Loops(T.parent, a) THEN Hang
    ELSE WalkUp(T.parent, T.parent[b], ParentChain(T.parent, a), {})

\* ------------------------------------------------------------------ numbers
\* The(S) is the element of a set of one element.  An expression e in which
\* x stands for the value of v is written The({e : x \in {v}}): v is computed
\* once, as the statement `const x = v` does.
The(S) == CHOOSE x \in S : TRUE

\* The dimensions are JavaScript numbers; they are modelled as exact fractions
\* <<numerator, denominator>> in lowest terms with a positive denominator.
RECURSIVE GCD(_, _)
GCD(a, b) == IF b = 0 THEN a ELSE The({GCD(b, r) : r \in {a % b}})
Rat(num, den) ==
    The({The({<<(IF d < 0 THEN -n ELSE n) \div g, (IF d < 0 THEN -d ELSE d) \div g>> :
                 g \in {GCD(IF n < 0 THEN -n ELSE n, IF d < 0 THEN -d ELSE d)}}) :
            n \in {num}, d \in {den}})
Zero == <<0, 1>>
RatAdd(x, y) ==
    The({Rat(a[1] * b[2] + b[1] * a[2], a[2] * b[2]) : a \in {x}, b \in {y}})
RatNeg(x) == The({<<-a[1], a[2]>> : a \in {x}})
RatSub(x, y) == RatAdd(x, RatNeg(y))
RatMul(x, y) == The({Rat(a[1] * b[1], a[2] * b[2]) : a \in {x}, b \in {y}})
RatDiv(x, y) == The({Rat(a[1] * b[2], a[2] * b[1]) : a \in {x}, b \in {y}})
RatLess(x, y) == The({a[1] * b[2] < b[1] * a[2] : a \in {x}, b \in {y}})
\* Math.max
RatMax(x, y) == The({IF RatLess(a, b) THEN b ELSE a : a \in {x}, b \in {y}})
RatMax3(x, y, z) == RatMax(RatMax(x, y), z)

\* ------------------------------------------------------------------- strings
\* A string is the sequence of its characters; undefined and '' are both <<>>
\* where the code only tests a string for truthiness.
ZeroWidthSpace == <<"u200b">>
Digits36 == <<"0", "1", "2", "3", "4", "5", "6", "7", "8", "9", "a", "b", "c", "d",
              "e", "f", "g", "h", "i", "j", "k", "l", "m", "n", "o", "p", "q", "r",
              "s", "t", "u", "v", "w", "x", "y", "z">>

\* Number.prototype.toString(36) of a natural number
RECURSIVE toString36(_)
toString36(num) ==
    IF num < Len(Digits36) THEN <<Digits36[num + 1]>>
    ELSE toString36(num \div Len(Digits36)) \o <<Digits36[(num % Len(Digits36)) + 1]>>

\* --------------------------------------------------------------------- boxes
\* What a render returns: null, or a list of spans; and the content a span is
\* made from: null, a list of spans or a string.
Absent == [absent |-> TRUE, list |-> <<>>, text |-> <<>>]
Boxes(list) == [absent |-> FALSE, list |-> list, text |-> <<>>]
Text(str) == [absent |-> FALSE, list |-> <<>>, text |-> str]

\* the fields of a Span that are modelled (the style classes and the
\* horizontal offsets left, right and italic are not)
\*   src: the atom whose makeSpan() made the span, Null for a container
\*   pos, shifts: the mode and the shifts makeVlist() was called with
EmptySpan ==
    [src |-> Null, type |-> "", text |-> <<>>, children |-> <<>>,
     height |-> Zero, depth |-> Zero, isSelected |-> FALSE, id |-> <<>>,
     caret |-> "", containsCaret |-> FALSE, pos |-> "", shifts |-> <<>>]

\* height(spans) and depth(spans) of a list: the largest of its spans
RECURSIVE MaxOver(_, _, _)
MaxOver(list, field, least) ==
    IF list = <<>> THEN least
    ELSE RatMax(Head(list)[field], MaxOver(Tail(list), field, least))
spanHeight(span) == span.height
spanDepth(span) == span.depth

\* makeSpan(content, classes, type) of span.ts
makeSpan(content, spanType) ==
    [EmptySpan EXCEPT !.type = spanType,
                      !.text = content.text,
                      !.children = content.list,
                      !.height = MaxOver(content.list, "height", Zero),
                      !.depth = MaxOver(content.list, "depth", Zero)]

\* Span.applyStyle(): a span of text gets the dimensions of its glyphs
applyStyle(span, glyph) ==
    IF span.text = <<>> THEN span
    ELSE [span EXCEPT !.height = glyph.height, !.depth = glyph.depth]

\* Span.selected(isSelected), on the span and the spans inside it
RECURSIVE selected(_, _)
selected(span, isSelected) ==
    [span EXCEPT !.isSelected = isSelected,
                 !.children = [i \in 1..Len(span.children) |->
                                  selected(span.children[i], isSelected)]]
selectedAll(list) == [i \in 1..Len(list) |-> selected(list[i], TRUE)]

\* makeVlist(context, elements, pos, posData) for 'shift' and
\* 'individualShift': every span lowered by its shift
ShiftedHeights(list, shifts) ==
    [i \in 1..Len(list) |-> [height |-> RatSub(list[i].height, shifts[i]),
                             depth |-> RatAdd(list[i].depth, shifts[i])]]
makeVlist(list, pos, shifts) ==
    [EmptySpan EXCEPT !.children = list, !.pos = pos, !.shifts = shifts,
         !.height = MaxOver(ShiftedHeights(list, shifts), "height",
                            RatSub(list[1].height, shifts[1])),
         !.depth = MaxOver(ShiftedHeights(list, shifts), "depth",
                           RatAdd(list[1].depth, shifts[1]))]

\* the span types of span.ts
isSpanType(t) ==
    t \in {"", "chem", "mord", "mbin", "mop", "mrel", "mopen", "mclose",
           "mpunct", "minner", "spacing", "first", "command", "composition",
           "error", "placeholder", "supsub", "none", "mathstyle"}

\* ------------------------------------------------------------------ context
\* The math styles of mathstyle.ts by id: 0 displaystyle, 2 textstyle,
\* 4 scriptstyle, 6 scriptscriptstyle, the odd ids their cramped forms.
displaystyle == 0
textstyle == 2
sizeMultiplier(style) ==
    IF style < 4 THEN Rat(1, 1) ELSE IF style < 6 THEN Rat(7, 10) ELSE Rat(1, 2)
cramped(style) == style % 2 = 1

SIZING_MULTIPLIER ==
    [size1 |-> Rat(5, 10), size2 |-> Rat(7, 10), size3 |-> Rat(8, 10),
     size4 |-> Rat(9, 10), size5 |-> Rat(10, 10), size6 |-> Rat(12, 10),
     size7 |-> Rat(144, 100), size8 |-> Rat(173, 100), size9 |-> Rat(207, 100),
     size10 |-> Rat(249, 100)]

\* Context.sup() and Context.sub(): the style of the scripts, with the style
\* and the size of this context as the parent's
contextSup(ctx) ==
    [ctx EXCEPT !.mathstyle = <<4, 5, 4, 5, 6, 7, 6, 7>>[ctx.mathstyle + 1],
                !.parentMathstyle = ctx.mathstyle, !.parentSize = ctx.size]
contextSub(ctx) ==
    [ctx EXCEPT !.mathstyle = <<5, 5, 5, 5, 7, 7, 7, 7>>[ctx.mathstyle + 1],
                !.parentMathstyle = ctx.mathstyle, !.parentSize = ctx.size]

\* mathstyle.metrics, the font parameters of a style by the size of the style:
\* the text sizes, the script sizes, the scriptscript sizes
MetricsOf(text, script, scriptscript) ==
    [style \in 0..7 |->
        IF style < 4 THEN text ELSE IF style < 6 THEN script ELSE scriptscript]
Sigma(sup1, sup2, sup3, sub1, sub2, supDrop, subDrop, xHeight, rule) ==
    [sup1 |-> Rat(sup1, 1000), sup2 |-> Rat(sup2, 1000), sup3 |-> Rat(sup3, 1000),
     sub1 |-> Rat(sub1, 1000), sub2 |-> Rat(sub2, 1000),
     supDrop |-> Rat(supDrop, 1000), subDrop |-> Rat(subDrop, 1000),
     xHeight |-> Rat(xHeight, 1000), defaultRuleThickness |-> Rat(rule, 1000)]
\* the parameters of the math fonts, in thousandths of an em
FontMetrics ==
    MetricsOf(Sigma(413, 363, 289, 150, 247, 386, 50, 431, 40),
              Sigma(413, 363, 289, 150, 247, 353, 71, 431, 40),
              Sigma(413, 363, 289, 150, 247, 494, 100, 431, 40))
\* a font with a large sub1 and a small x-height
WideMetrics ==
    MetricsOf(Sigma(400, 350, 300, 300, 250, 400, 100, 400, 40),
              Sigma(400, 350, 300, 300, 250, 400, 100, 400, 40),
              Sigma(400, 350, 300, 300, 250, 400, 100, 400, 40))

\* the height and the depth of the glyphs of a call, in the unit of the metrics
Glyph(height, depth) == [height |-> height, depth |-> depth]

\* a context: the style and the size, those of the parent, the metrics of
\* the styles and the dimensions of the glyphs
Context(mathstyle, parentMathstyle, size, parentSize, metrics, glyph) ==
    [mathstyle |-> mathstyle, parentMathstyle |-> parentMathstyle,
     size |-> size, parentSize |-> parentSize, metrics |-> metrics, glyph |-> glyph]
DefaultContext ==
    Context(textstyle, textstyle, "size5", "size5", FontMetrics, Glyph(Zero, Zero))

\* context.atomIdsSettings when the context has none
NoIdsSettings ==
    [present |-> FALSE, numeric |-> FALSE, seed |-> 0, groupNumbers |-> FALSE,
     overrideID |-> <<>>]

\* What a render pass changes: context.atomIdsSettings (one object shared by
\* the contexts of a pass), the ids of the atoms, and how many random ids
\* makeID() has drawn from the sequence `random`.
Pass(ais, ids, random) == [ais |-> ais, id |-> ids, random |-> random, drawn |-> 0]

\* the fields of an atom that no operation of the model assigns
DefaultAttrs ==
    [type |-> "", value |-> <<>>, mode |-> "math", limits |-> "", caret |-> "",
     isSelected |-> FALSE, containsCaret |-> FALSE, isExtensibleSymbol |-> FALSE,
     command |-> <<>>, toLatexOverride |-> FALSE, render |-> "Atom"]

\* ---------------------------------------------------------------- rendering
\* The operators below read the tree and the attributes of the atoms as they
\* stand; they thread the state of the pass (see Pass) and return it with
\* their result.  A span is a value here: where the code changes a span in
\* place the model builds the changed span.  Not modelled: context.phantomBase
\* (read by SubsupAtom.render only), an array inside the array a render
\* returns, and a render of a tree on which isCharacterBox() throws.

\* makeID without the increment of the seed
makeID_SameSeed(pass) ==
    IF ~pass.ais.present THEN [S |-> pass, id |-> <<>>]
    ELSE IF pass.ais.numeric
    THEN [S |-> pass,
          id |-> IF pass.ais.overrideID # <<>> THEN pass.ais.overrideID
                 ELSE toString36(pass.ais.seed)]
    ELSE [S |-> [pass EXCEPT !.drawn = @ + 1],
          id |-> pass.random[(pass.drawn % Len(pass.random)) + 1]]

\* makeID(context)
makeID(pass) ==
    IF ~pass.ais.present THEN [S |-> pass, id |-> <<>>]
    ELSE IF pass.ais.numeric
    THEN [S |-> [pass EXCEPT !.ais.seed = @ + 1],
          id |-> IF pass.ais.overrideID # <<>> THEN pass.ais.overrideID
                 ELSE toString36(pass.ais.seed)]
    ELSE [S |-> [pass EXCEPT !.drawn = @ + 1],
          id |-> pass.random[(pass.drawn % Len(pass.random)) + 1]]

\* bind(context, span)
bind(ctx, self, pass, span) ==
    IF type(self) # "first" /\ attrs[self].value # ZeroWidthSpace
    THEN The({[S |-> [made.S EXCEPT !.id[self] = made.id],
               span |-> IF made.id # <<>> THEN [span EXCEPT !.id = made.id] ELSE span] :
                 made \in {makeID(pass)}})
    ELSE [S |-> pass, span |-> span]

\* the argument of Atom.makeSpan: a string or a list of atoms (<<Null>>: undefined)
StringArg(str) == [string |-> TRUE, str |-> str, atoms |-> NullList]
AtomsArg(atoms) == [string |-> FALSE, str |-> <<>>, atoms |-> atoms]

isDigit(self) ==
    /\ type(self) = "mord"
    /\ Len(attrs[self].value) = 1
    /\ attrs[self].value[1] \in {"0", "1", "2", "3", "4", "5", "6", "7", "8", "9", ",", "."}
isText(self) == attrs[self].mode = "text"

\* the spans of an atom go to the selection or, after the selection so far,
\* to the result
collect_NoFlush(result, selection, flat, isSel) ==
    IF isSel THEN [result |-> result, selection |-> selectedAll(selection \o flat)]
    ELSE [result |-> result \o flat, selection |-> selection]
collect(result, selection, flat, isSel) ==
    IF isSel THEN [result |-> result, selection |-> selectedAll(selection \o flat)]
    ELSE [result |-> result \o selection \o flat, selection |-> <<>>]

\* !result || result.length === 0
NoBoxes_NullOnly(result) == result.absent
NoBoxes(result) == result.absent \/ result.list = <<>>

\* !this.superscript && !this.subscript
noScripts_Empty(self) ==
    hasEmptyBranch(Tree, self, "superscript") /\ hasEmptyBranch(Tree, self, "subscript")
noScripts(self) ==
    ~hasBranch(Tree, self, "superscript") /\ ~hasBranch(Tree, self, "subscript")

\* span.height *= factor; span.depth *= factor, for every span of the list
Rescale(list, factor) ==
    The({[i \in 1..Len(list) |->
             [list[i] EXCEPT !.height = RatMul(@, f), !.depth = RatMul(@, f)]] :
            f \in {factor}})

RECURSIVE Atom_render(_, _, _)
RECURSIVE renderLoop(_, _, _, _)
RECURSIVE render(_, _, _)
RECURSIVE renderOf(_, _, _)
RECURSIVE Atom_makeSpan(_, _, _, _)
RECURSIVE attachSupsub(_, _, _, _, _)

\* Atom.makeSpan(context, value)
Atom_makeSpan(ctx, self, pass, arg) ==
    LET spanType == IF type(self) = "textord" THEN "mord"
                    ELSE IF isSpanType(type(self)) THEN type(self) ELSE ""
    IN The({The({[S |-> bound.S,
                  span |-> IF /\ attrs[self].caret # ""
                              /\ ~hasBranch(Tree, self, "superscript")
                              /\ ~hasBranch(Tree, self, "subscript")
                           THEN [bound.span EXCEPT !.caret = attrs[self].caret]
                           ELSE bound.span] :
                    bound \in {bind(ctx, self, content.S,
                                    applyStyle([makeSpan(content.res, spanType)
                                                   EXCEPT !.src = self], ctx.glyph))}}) :
               content \in {IF arg.string THEN [S |-> pass, res |-> Text(arg.str)]
                            ELSE Atom_render(ctx, arg.atoms, pass)}})

\* Rule 18a: the shifts by the nucleus; rule 18c: the least shift of a
\* superscript
baseShifts(ctx, self, nucleus) ==
    The({[sup |-> IF ~characterBox THEN RatSub(spanHeight(nucleus), metrics.supDrop)
                  ELSE Zero,
          sub |-> IF ~characterBox THEN RatAdd(spanDepth(nucleus), metrics.subDrop)
                  ELSE Zero,
          minSup |-> IF ctx.mathstyle = displaystyle THEN metrics.sup1
                     ELSE IF cramped(ctx.mathstyle) THEN metrics.sup3
                     ELSE metrics.sup2] :
            characterBox \in {isCharacterBox(Tree, self) = "true"},
            metrics \in {ctx.metrics[ctx.mathstyle]}})

\* rule 18e without the push of the subscript to the least gap
bothShifts_NoPush(metrics, base, supmid, submid) ==
    The({The({IF ~close THEN [sup |-> supShift, sub |-> subShift]
              ELSE IF RatLess(Zero, psi)
              THEN [sup |-> RatAdd(supShift, psi), sub |-> RatSub(subShift, psi)]
              ELSE [sup |-> supShift, sub |-> subShift] :
                 close \in {RatLess(RatSub(RatSub(supShift, spanDepth(supmid)),
                                           RatSub(spanHeight(submid), subShift)),
                                    RatMul(Rat(4, 1), metrics.defaultRuleThickness))},
                 gapShift \in {RatAdd(RatSub(RatMul(Rat(4, 1), metrics.defaultRuleThickness),
                                             RatSub(supShift, supmid.depth)),
                                      spanHeight(submid))},
                 psi \in {RatSub(RatMul(Rat(8, 10), metrics.xHeight),
                                 RatSub(supShift, spanDepth(supmid)))}}) :
            supShift \in {RatMax3(base.sup, base.minSup,
                                  RatAdd(supmid.depth, RatMul(Rat(1, 4), metrics.xHeight)))},
            subShift \in {RatMax(base.sub, metrics.sub2)}})

\* rule 18e with the subscript lowered by psi
bothShifts_SubDown(metrics, base, supmid, submid) ==
    The({The({IF ~close THEN [sup |-> supShift, sub |-> subShift]
              ELSE IF RatLess(Zero, psi)
              THEN [sup |-> RatAdd(supShift, psi), sub |-> RatAdd(gapShift, psi)]
              ELSE [sup |-> supShift, sub |-> gapShift] :
                 close \in {RatLess(RatSub(RatSub(supShift, spanDepth(supmid)),
                                           RatSub(spanHeight(submid), subShift)),
                                    RatMul(Rat(4, 1), metrics.defaultRuleThickness))},
                 gapShift \in {RatAdd(RatSub(RatMul(Rat(4, 1), metrics.defaultRuleThickness),
                                             RatSub(supShift, supmid.depth)),
                                      spanHeight(submid))},
                 psi \in {RatSub(RatMul(Rat(8, 10), metrics.xHeight),
                                 RatSub(supShift, spanDepth(supmid)))}}) :
            supShift \in {RatMax3(base.sup, base.minSup,
                                  RatAdd(supmid.depth, RatMul(Rat(1, 4), metrics.xHeight)))},
            subShift \in {RatMax(base.sub, metrics.sub2)}})

\* Rule 18e, a superscript and a subscript: [sup, sub], the shifts up and down
bothShifts(metrics, base, supmid, submid) ==
    The({The({IF ~close THEN [sup |-> supShift, sub |-> subShift]
              ELSE IF RatLess(Zero, psi)
              THEN [sup |-> RatAdd(supShift, psi), sub |-> RatSub(gapShift, psi)]
              ELSE [sup |-> supShift, sub |-> gapShift] :
                 close \in {RatLess(RatSub(RatSub(supShift, spanDepth(supmid)),
                                           RatSub(spanHeight(submid), subShift)),
                                    RatMul(Rat(4, 1), metrics.defaultRuleThickness))},
                 gapShift \in {RatAdd(RatSub(RatMul(Rat(4, 1), metrics.defaultRuleThickness),
                                             RatSub(supShift, supmid.depth)),
                                      spanHeight(submid))},
                 psi \in {RatSub(RatMul(Rat(8, 10), metrics.xHeight),
                                 RatSub(supShift, spanDepth(supmid)))}}) :
            supShift \in {RatMax3(base.sup, base.minSup,
                                  RatAdd(supmid.depth, RatMul(Rat(1, 4), metrics.xHeight)))},
            subShift \in {RatMax(base.sub, metrics.sub2)}})

\* the vertical stack of the scripts; null when there is none. Rule 18b, a
\* subscript only: the shift down; rules 18c and 18d, a superscript only: the
\* shift up
supsubOf(ctx, self, nucleus, hasSup, hasSub, supmid, submid) ==
    The({IF hasSub /\ hasSup
         THEN The({Boxes(<<makeVlist(<<submid, supmid>>, "individualShift",
                                     <<shifts.sub, RatNeg(shifts.sup)>>)>>) :
                      shifts \in {bothShifts(metrics, base, supmid, submid)}})
         ELSE IF hasSub
         THEN The({Boxes(<<makeVlist(<<submid>>, "shift", <<shift>>)>>) :
                      shift \in {RatMax3(base.sub, metrics.sub1,
                                        RatSub(spanHeight(submid),
                                               RatMul(Rat(8, 10), metrics.xHeight)))}})
         ELSE IF hasSup
         THEN The({Boxes(<<makeVlist(<<supmid>>, "shift", <<shift>>)>>) :
                      shift \in {RatNeg(RatMax3(base.sup, base.minSup,
                                               RatAdd(supmid.depth,
                                                      RatMul(Rat(1, 4), metrics.xHeight))))}})
         ELSE Absent :
            base \in {baseShifts(ctx, self, nucleus)},
            metrics \in {ctx.metrics[ctx.mathstyle]}})

\* attachSupsub(context, nucleus, type)
attachSupsub(ctx, self, pass, nucleus, spanType) ==
    IF noScripts(self) THEN [S |-> pass, span |-> nucleus]
    ELSE
    LET hasSup == hasBranch(Tree, self, "superscript")
        hasSub == hasBranch(Tree, self, "subscript")
    IN The({The({The({[S |-> sub.S,
                       span |-> makeSpan(Boxes(<<nucleus,
                                    [makeSpan(supsub, "msubsup") EXCEPT
                                        !.caret = attrs[self].caret]>>), spanType)] :
                         supsub \in {supsubOf(ctx, self, nucleus, hasSup, hasSub,
                                              makeSpan(sup.res, ""),
                                              makeSpan(sub.res, ""))}}) :
                    sub \in {IF hasSub
                             THEN Atom_render(contextSub(ctx),
                                              branch(Tree, self, "subscript"), sup.S)
                             ELSE [S |-> sup.S, res |-> Absent]}}) :
               sup \in {IF hasSup
                        THEN Atom_render(contextSup(ctx),
                                         branch(Tree, self, "superscript"), pass)
                        ELSE [S |-> pass, res |-> Absent]}})

\* Atom.render(context), the method of the class Atom
render(ctx, self, pass) ==
    LET arg == IF hasBranch(Tree, self, "body") THEN AtomsArg(branch(Tree, self, "body"))
               ELSE IF attrs[self].value # <<>> THEN StringArg(attrs[self].value)
               ELSE AtomsArg(NullList)
    IN The({The({IF /\ attrs[self].limits = ""
                    /\ \/ hasBranch(Tree, self, "superscript")
                       \/ hasBranch(Tree, self, "subscript")
                 THEN The({[S |-> attached.S, res |-> Boxes(<<attached.span>>)] :
                              attached \in {attachSupsub(ctx, self, made.S, result,
                                                         result.type)}})
                 ELSE [S |-> made.S, res |-> Boxes(<<result>>)] :
                    result \in {[made.span EXCEPT
                                    !.type = IF isSpanType(type(self)) THEN type(self)
                                             ELSE "",
                                    !.containsCaret = attrs[self].containsCaret]}}) :
               made \in {Atom_makeSpan(ctx, self, pass, arg)}})

\* atom.render(context): the method of the atom's class; a class that
\* overrides it may return null or an empty array
renderOf(ctx, self, pass) ==
    IF attrs[self].render = "null" THEN [S |-> pass, res |-> Absent]
    ELSE IF attrs[self].render = "empty" THEN [S |-> pass, res |-> Boxes(<<>>)]
    ELSE render(ctx, self, pass)

\* the variables of the loop of Atom.render
LoopVars(pass) ==
    [S |-> pass, result |-> <<>>, selection |-> <<>>,
     digitOrTextStringID |-> <<>>, lastWasDigit |-> TRUE]

\* one turn of the loop of Atom.render, for the atom atoms[i]
loopTurn(ctx, atom, loop) ==
    LET ais == loop.S.ais
        groupNumbers == ais.present /\ ais.groupNumbers
        displaySelection == ~ais.present \/ ~ais.groupNumbers
        override == /\ groupNumbers
                    /\ loop.digitOrTextStringID # <<>>
                    /\ \/ loop.lastWasDigit /\ isDigit(atom)
                       \/ ~loop.lastWasDigit /\ isText(atom)
        before == IF override
                  THEN [loop.S EXCEPT !.ais.overrideID = loop.digitOrTextStringID]
                  ELSE loop.S
    IN The({
        LET after == IF ais.present THEN [rendered.S EXCEPT !.ais.overrideID = <<>>]
                     ELSE rendered.S
            flat == rendered.res.list
            digitOrText == isDigit(atom) \/ isText(atom)
            changed == /\ groupNumbers /\ digitOrText
                       /\ \/ loop.digitOrTextStringID = <<>>
                          \/ loop.lastWasDigit # isDigit(atom)
            lastWasDigit1 == IF changed THEN isDigit(atom) ELSE loop.lastWasDigit
            stringID1 == IF changed THEN after.id[atom] ELSE loop.digitOrTextStringID
            done == /\ groupNumbers
                    /\ \/ ~digitOrText
                       \/ ~hasEmptyBranch(Tree, atom, "superscript")
                       \/ ~hasEmptyBranch(Tree, atom, "subscript")
            stringID2 == IF done THEN <<>> ELSE stringID1
        IN IF rendered.res.absent THEN [loop EXCEPT !.S = after]
           ELSE The({[S |-> after,
                      result |-> collected.result,
                      selection |-> collected.selection,
                      digitOrTextStringID |-> stringID2,
                      lastWasDigit |-> lastWasDigit1] :
                        collected \in {collect(loop.result, loop.selection, flat,
                                               displaySelection /\ attrs[atom].isSelected)}}) :
        rendered \in {renderOf(ctx, atom, before)}})

\* the loop of Atom.render from atoms[i] on
renderLoop(ctx, atoms, i, loop) ==
    IF i > Len(atoms)
    THEN \* a leftover selection
         [loop EXCEPT !.result = @ \o loop.selection, !.selection = <<>>]
    ELSE The({renderLoop(ctx, atoms, i + 1, next) :
                 next \in {loopTurn(ctx, atoms[i], loop)}})

\* the result of Atom.render before the rescaling: of the one atom of the
\* list, or of the loop over the atoms
assemble(ctx, atoms, pass) ==
    IF Len(atoms) = 1
    THEN The({[S |-> single.S,
               res |-> IF /\ ~single.res.absent
                          /\ ~pass.ais.present \/ ~pass.ais.groupNumbers
                          /\ attrs[atoms[1]].isSelected
                       THEN Boxes(selectedAll(single.res.list))
                       ELSE single.res] :
                 single \in {renderOf(ctx, atoms[1], pass)}})
    ELSE The({The({[S |-> loop.S, res |-> Boxes(loop.result)] :
                      loop \in {renderLoop(ctx, atoms, 1, start)}}) :
                 start \in {LoopVars(pass)}})

\* Atom.render(inputContext, atoms), the static method; atoms is <<Null>> for
\* an undefined list
Atom_render(ctx, atoms, pass) ==
    IF atoms = NullList THEN [S |-> pass, res |-> Absent]
    ELSE IF atoms = <<>> THEN [S |-> pass, res |-> Boxes(<<>>)]
    ELSE The({
        LET byStyle == IF ctx.mathstyle # ctx.parentMathstyle
                       THEN Rescale(r.res.list,
                                    RatDiv(sizeMultiplier(ctx.mathstyle),
                                           sizeMultiplier(ctx.parentMathstyle)))
                       ELSE r.res.list
            bySize == IF ctx.size # ctx.parentSize
                      THEN Rescale(byStyle,
                                   RatDiv(SIZING_MULTIPLIER[ctx.size],
                                          SIZING_MULTIPLIER[ctx.parentSize]))
                      ELSE byStyle
        IN IF NoBoxes(r.res) THEN [S |-> r.S, res |-> Absent]
           ELSE [S |-> r.S, res |-> Boxes(bySize)] :
        r \in {assemble(ctx, atoms, pass)}})

\* ------------------------------------------------------------ serialization
\* A string is the sequence of its characters.  Atom.latex, when it is a
\* string, is the source text the parser recorded for the atom: it is written
\* here with a character (%) that no emitter writes, followed by the number of
\* the atom.
Verbatim(self) == <<"%">> \o toString36(self)

\* joinLatex(segments) of tokenizer.ts: the segments one after the other
RECURSIVE joinLatex(_)
joinLatex(segments) ==
    IF segments = <<>> THEN <<>> ELSE Head(segments) \o joinLatex(Tail(segments))

\* charToLatex(mode, value) of definitions-utils.ts: the markup of a symbol in
\* the table of the mode, undefined for a symbol the table lacks
SymbolTable == {<<"+">>, <<"1">>, <<"x">>}
charToLatex(mode, value) ==
    IF value \in SymbolTable THEN [defined |-> TRUE, text |-> value]
    ELSE [defined |-> FALSE, text |-> <<>>]

\* !options.expandMacro && typeof value.latex === 'string', without the
\* test of the option
useVerbatim_Always(expandMacro, isString) == isString
\* !options.expandMacro && typeof value.latex === 'string'
useVerbatim(expandMacro, isString) == ~expandMacro /\ isString

RECURSIVE Atom_toLatex(_, _)
RECURSIVE Atom_toLatexList(_, _)
RECURSIVE atomsToLatex(_, _)
RECURSIVE emitLatexRun(_, _)
RECURSIVE toLatex(_, _)
RECURSIVE toLatexOverride(_, _)
RECURSIVE supsubToLatex(_, _)

\* Atom.toLatex(value, options) for an atom
Atom_toLatex(self, expandMacro) ==
    IF useVerbatim(expandMacro, latex[self]) THEN Verbatim(self)
    ELSE IF attrs[self].toLatexOverride THEN toLatexOverride(self, expandMacro)
    ELSE toLatex(self, expandMacro)

\* Atom.toLatex(value, options) for a list of atoms, <<Null>> when undefined
Atom_toLatexList(atoms, expandMacro) ==
    IF atoms = NullList THEN <<>>
    ELSE IF Len(atoms) > 0 THEN atomsToLatex(atoms, expandMacro)
    ELSE <<>>

\* atomsToLatex(atoms, options); the atoms of the model have one cssClass,
\* one color and one mode, so the list is one run
atomsToLatex(atoms, expandMacro) ==
    IF type(atoms[1]) = "first" /\ Len(atoms) = 1 THEN <<>>
    ELSE LET rest == IF type(atoms[1]) = "first" THEN Tail(atoms) ELSE atoms
         IN IF Len(rest) = 0 THEN <<>>
            ELSE joinLatex(<<joinLatex(<<joinLatex(<<emitLatexRun(rest, expandMacro)>>)>>)>>)

\* emitLatexRun(run, options) of modes-utils.ts: Atom.toLatex of every atom of
\* the run, with the options of the caller
emitLatexRun(run, expandMacro) ==
    joinLatex([i \in 1..Len(run) |-> Atom_toLatex(run[i], expandMacro)])

\* the emitter of a definition (value.toLatexOverride): the command of the
\* definition and the body in braces
toLatexOverride(self, expandMacro) ==
    joinLatex(<<<<"\\", "o">>, <<"{">>,
                Atom_toLatexList(IF hasBranch(Tree, self, "body")
                                 THEN branch(Tree, self, "body") ELSE NullList,
                                 expandMacro),
                <<"}">>>>)

\* supsubToLatex(options)
supsubToLatex(self, expandMacro) ==
    LET sup == Atom_toLatexList(branch(Tree, self, "superscript"), expandMacro)
        sub == Atom_toLatexList(branch(Tree, self, "subscript"), expandMacro)
        supText == IF hasEmptyBranch(Tree, self, "superscript") THEN <<>>
                   ELSE IF Len(sup) = 1
                   THEN <<"^">> \o (IF sup = <<"u2032">>
                                    THEN <<"\\", "p", "r", "i", "m", "e", " ">>
                                    ELSE IF sup = <<"u2033">>
                                    THEN <<"\\", "d", "o", "u", "b", "l", "e",
                                           "p", "r", "i", "m", "e", " ">>
                                    ELSE sup)
                   ELSE <<"^", "{">> \o sup \o <<"}">>
        subText == IF hasEmptyBranch(Tree, self, "subscript") THEN <<>>
                   ELSE IF Len(sub) = 1 THEN <<"_">> \o sub
                   ELSE <<"_", "{">> \o sub \o <<"}">>
    IN supText \o subText

\* toLatex(options), the default emitter
toLatex(self, expandMacro) ==
    LET body == Atom_toLatexList(branch(Tree, self, "body"), expandMacro)
        value == attrs[self].value
    IN IF hasBranch(Tree, self, "body") /\ attrs[self].command # <<>>
       THEN joinLatex(<<attrs[self].command, <<"{">>, body, <<"}">>,
                        supsubToLatex(self, expandMacro)>>)
       ELSE IF hasBranch(Tree, self, "body")
       THEN joinLatex(<<body, supsubToLatex(self, expandMacro)>>)
       ELSE IF value # <<>> /\ value # ZeroWidthSpace
       THEN IF charToLatex(attrs[self].mode, value).defined
            THEN charToLatex(attrs[self].mode, value).text
            ELSE attrs[self].command
       ELSE <<>>

\* ---------------------------------------------------------------- actions
\* the last call of Atom.render, render, attachSupsub or Atom.toLatex:
\*   atoms, self, nucleus, ctx, ais, random, expandMacro: the arguments (ais and
\*     random: context.atomIdsSettings at the call and the ids Math.random gives)
\*   res, span, text: what the call returned;  seed: the seed after the call
NoCall ==
    [op |-> "none", self |-> Null, atoms |-> NullList, nucleus |-> EmptySpan,
     ctx |-> DefaultContext, ais |-> NoIdsSettings, random |-> <<>>,
     expandMacro |-> FALSE, res |-> Absent, span |-> EmptySpan, text |-> <<>>,
     seed |-> 0]

NoOp == [op |-> "none", self |-> Null, child |-> Null, ref |-> Null,
         branch |-> Undefined, children |-> <<>>, threw |-> FALSE, ret |-> <<>>]

Commit(r, op) ==
    /\ r.st \in {"ok", "throw"}
    /\ parent' = r.T.parent
    /\ treeBranch' = r.T.treeBranch
    /\ _isDirty' = r.T.dirty
    /\ branches' = r.T.branches
    /\ latex' = r.T.latex
    /\ _children' = r.T.children
    /\ UNCHANGED <<attrs, id, call>>
    /\ nfirst' = r.T.nfirst
    /\ nops' = nops + 1
    /\ lastOp' = [op EXCEPT !.threw = (r.st = "throw"), !.ret = r.ret]

\* the lists a caller passes: arrays of distinct atoms
ListsOf(S) ==
    UNION {{l \in [1..k -> S] : \A i \in 1..k, j \in 1..k : (l[i] = l[j]) => (i = j)} :
           k \in 0..MaxList}
ListArgs == ListsOf(Live)

CreateBranch(self, name) ==
    Commit(createBranch(Tree, self, name),
           [NoOp EXCEPT !.op = "createBranch", !.self = self, !.branch = name])

SetChildren(self, children, name) ==
    Commit(setChildren(Tree, self, children, name),
           [NoOp EXCEPT !.op = "setChildren", !.self = self,
                        !.children = children, !.branch = name])

AddChild(self, child, name) ==
    Commit(addChild(Tree, self, child, name),
           [NoOp EXCEPT !.op = "addChild", !.self = self, !.child = child,
                        !.branch = name])

AddChildBefore(self, child, before) ==
    Commit(addChildBefore(Tree, self, child, before),
           [NoOp EXCEPT !.op = "addChildBefore", !.self = self, !.child = child,
                        !.ref = before, !.branch = treeBranch[before]])

AddChildAfter(self, child, after) ==
    Commit(addChildAfter(Tree, self, child, after),
           [NoOp EXCEPT !.op = "addChildAfter", !.self = self, !.child = child,
                        !.ref = after, !.branch = treeBranch[after]])

AddChildren(self, children, name) ==
    Commit(addChildren(Tree, self, children, name),
           [NoOp EXCEPT !.op = "addChildren", !.self = self,
                        !.children = children, !.branch = name])

AddChildrenAfter(self, children, after) ==
    Commit(addChildrenAfter(Tree, self, children, after),
           [NoOp EXCEPT !.op = "addChildrenAfter", !.self = self,
                        !.children = children, !.ref = after,
                        !.branch = treeBranch[after]])

RemoveBranch(self, name) ==
    Commit(removeBranch(Tree, self, name),
           [NoOp EXCEPT !.op = "removeBranch", !.self = self, !.branch = name])

RemoveChild(self, child) ==
    Commit(removeChild(Tree, self, child),
           [NoOp EXCEPT !.op = "removeChild", !.self = self, !.child = child,
                        !.branch = treeBranch[child]])

\* atom.children
Children(self) ==
    Commit(get_children(Tree, self, NumNodes),
           [NoOp EXCEPT !.op = "children", !.self = self])

\* atom.isDirty = false
ClearDirty(self) ==
    /\ _isDirty[self]
    /\ Commit(Res(isDirtySet(Tree, self, FALSE), "ok", <<>>),
              [NoOp EXCEPT !.op = "isDirty", !.self = self])

\* The tree a parser hands over: atom 1 (the root) holds atom 2 in its body,
\* atom 2 holds atom 3 in its body, every flag is clear.  The 'first' atoms of
\* the two bodies are the first two that makeFirstAtom() constructed.
Init ==
    /\ parent = [n \in Nodes |->
          IF n \in {2, NumAtoms + 1} THEN 1
          ELSE IF n \in {3, NumAtoms + 2} THEN 2 ELSE Null]
    /\ treeBranch = [n \in Nodes |->
          IF n \in {2, 3, NumAtoms + 1, NumAtoms + 2} THEN "body" ELSE Undefined]
    /\ _isDirty = [n \in Nodes |-> FALSE]
    /\ branches = [n \in Nodes |->
          IF n = 1 THEN Put(NoBranches, "body", <<NumAtoms + 1, 2>>)
          ELSE IF n = 2 THEN Put(NoBranches, "body", <<NumAtoms + 2, 3>>)
          ELSE NoBranches]
    /\ latex = [n \in Nodes |-> n \in Atoms]
    /\ _children = [n \in Nodes |-> NullList]
    /\ attrs = [n \in Nodes |-> DefaultAttrs]
    /\ id = [n \in Nodes |-> <<>>]
    /\ call = NoCall
    /\ nfirst = 2
    /\ nops = 0
    /\ lastOp = NoOp

Next ==
    /\ nops < MaxOps
    /\ \/ \E self \in Atoms, name \in BranchArgs : CreateBranch(self, name)
       \/ \E self \in Atoms, children \in ListArgs \cup {NullList}, name \in BranchArgs :
              SetChildren(self, children, name)
       \/ \E self \in Atoms, child \in Live, name \in BranchArgs :
              AddChild(self, child, name)
       \/ \E self \in Atoms, child \in Live, before \in Live :
              AddChildBefore(self, child, before)
       \/ \E self \in Atoms, child \in Live, after \in Live :
              AddChildAfter(self, child, after)
       \/ \E self \in Atoms, children \in ListArgs, name \in BranchArgs :
              AddChildren(self, children, name)
       \/ \E self \in Atoms, children \in ListArgs, after \in Live :
              AddChildrenAfter(self, children, after)
       \/ \E self \in Atoms, name \in BranchArgs : RemoveBranch(self, name)
       \/ \E self \in Atoms, child \in Live : RemoveChild(self, child)
       \/ \E self \in Atoms : ClearDirty(self)
       \/ \E self \in Atoms : Children(self)

Spec == Init /\ [][Next]_vars

\* Longer sessions of calls on one atom, with the caller's atoms as children.
DeepSelf == {2}
DeepBranchArgs == {"body", ColRow}
DeepNext ==
    /\ nops < MaxDeepOps
    /\ \/ \E self \in DeepSelf, name \in DeepBranchArgs : CreateBranch(self, name)
       \/ \E self \in DeepSelf, children \in ListsOf(Atoms) \cup {NullList},
             name \in DeepBranchArgs : SetChildren(self, children, name)
       \/ \E self \in DeepSelf, child \in Atoms, name \in DeepBranchArgs :
              AddChild(self, child, name)
       \/ \E self \in DeepSelf, child \in Atoms, before \in Live :
              AddChildBefore(self, child, before)
       \/ \E self \in DeepSelf, child \in Atoms, after \in Live :
              AddChildAfter(self, child, after)
       \/ \E self \in DeepSelf, children \in ListsOf(Atoms), name \in DeepBranchArgs :
              AddChildren(self, children, name)
       \/ \E self \in DeepSelf, children \in ListsOf(Atoms), after \in Live :
              AddChildrenAfter(self, children, after)
       \/ \E self \in DeepSelf, name \in DeepBranchArgs : RemoveBranch(self, name)
       \/ \E self \in DeepSelf, child \in Live : RemoveChild(self, child)
       \/ \E self \in DeepSelf : ClearDirty(self)
       \/ \E self \in DeepSelf : Children(self)

SpecDeep == Init /\ [][DeepNext]_vars

\* ------------------------------------------------------- rendering sessions
\* The trees a parser hands to a renderer.  The root (atom 1) holds the
\* nucleus, atom 2 or atom 3, in its body; the other of the two atoms is the
\* right sibling of the nucleus, or the content of one branch of the nucleus,
\* or is in no tree.  Each of the body, the superscript and the subscript of
\* the nucleus is absent, or holds its 'first' atom only, or holds the other
\* atom after its 'first' atom.
ShapeBranches == <<"body", "superscript", "subscript">>
ShapeIndex(b) == CHOOSE i \in 1..Len(ShapeBranches) : ShapeBranches[i] = b
Fills == {"absent", "empty", "content"}
Filled(sh) == {b \in Range(ShapeBranches) : sh[b] # "absent"}
Content(sh) == {b \in Range(ShapeBranches) : sh[b] = "content"}
Shapes ==
    {sh \in [nucleus : {2, 3}, sibling : BOOLEAN,
             body : Fills, superscript : Fills, subscript : Fills] :
        /\ Cardinality(Filled(sh)) <= MaxFirst - 1
        /\ Cardinality(Content(sh)) + (IF sh.sibling THEN 1 ELSE 0) <= 1}
ShapeOther(sh) == CHOOSE o \in {2, 3} : o # sh.nucleus
ShapeFirst(sh, b) ==
    NumAtoms + 1 + Cardinality({c \in Filled(sh) : ShapeIndex(c) <= ShapeIndex(b)})

\* the state after the parser built the tree of a shape, the atoms with the
\* attributes a, the atoms of `cached` with their source text
ShapeInit(sh, a, cached) ==
    /\ parent =
        [n \in Nodes |->
            IF n \in {NumAtoms + 1, sh.nucleus} THEN 1
            ELSE IF n = ShapeOther(sh)
            THEN IF sh.sibling THEN 1
                 ELSE IF Content(sh) # {} THEN sh.nucleus ELSE Null
            ELSE IF \E b \in Filled(sh) : ShapeFirst(sh, b) = n THEN sh.nucleus
            ELSE Null]
    /\ treeBranch =
        [n \in Nodes |->
            IF n \in {NumAtoms + 1, sh.nucleus} THEN "body"
            ELSE IF n = ShapeOther(sh)
            THEN IF sh.sibling THEN "body"
                 ELSE IF Content(sh) # {} THEN CHOOSE b \in Content(sh) : TRUE
                 ELSE Undefined
            ELSE IF \E b \in Filled(sh) : ShapeFirst(sh, b) = n
            THEN CHOOSE b \in Filled(sh) : ShapeFirst(sh, b) = n
            ELSE Undefined]
    /\ _isDirty = [n \in Nodes |-> FALSE]
    /\ branches =
        [n \in Nodes |->
            IF n = 1
            THEN Put(NoBranches, "body",
                     <<NumAtoms + 1, sh.nucleus>>
                         \o (IF sh.sibling THEN <<ShapeOther(sh)>> ELSE <<>>))
            ELSE IF n = sh.nucleus
            THEN [b \in Filled(sh) |->
                     IF sh[b] = "content" THEN <<ShapeFirst(sh, b), ShapeOther(sh)>>
                     ELSE <<ShapeFirst(sh, b)>>]
            ELSE NoBranches]
    /\ latex = [n \in Nodes |-> n \in cached]
    /\ _children = [n \in Nodes |-> NullList]
    /\ attrs = a
    /\ id = [n \in Nodes |-> <<>>]
    /\ call = NoCall
    /\ nfirst = 1 + Cardinality(Filled(sh))
    /\ nops = 0
    /\ lastOp = NoOp

\* the value of an atom by its place in AtomKinds
Valued ==
    [n \in Nodes |->
        [DefaultAttrs EXCEPT !.value = IF n = 2 THEN <<"+">>
                                       ELSE IF n = 3 THEN <<"1">>
                                       ELSE <<>>]]

\* a render leaves the tree as it is
TreeUnchanged ==
    UNCHANGED <<parent, treeBranch, _isDirty, branches, latex, _children, attrs,
                nfirst, lastOp>>

\* Atom.render(context, atoms) with context.atomIdsSettings = ais
RenderList(ctx, atoms, ais, random) ==
    \E r \in {Atom_render(ctx, atoms, Pass(ais, id, random))} :
       /\ id' = r.S.id
       /\ call' = [NoCall EXCEPT !.op = "Atom.render", !.atoms = atoms, !.ctx = ctx,
                                 !.ais = ais, !.random = random, !.res = r.res,
                                 !.seed = r.S.ais.seed]
       /\ nops' = nops + 1
       /\ TreeUnchanged

\* self.render(context)
RenderAtom(self, ctx, ais, random) ==
    \E r \in {render(ctx, self, Pass(ais, id, random))} :
       /\ id' = r.S.id
       /\ call' = [NoCall EXCEPT !.op = "render", !.self = self, !.ctx = ctx,
                                 !.ais = ais, !.random = random, !.res = r.res,
                                 !.seed = r.S.ais.seed]
       /\ nops' = nops + 1
       /\ TreeUnchanged

\* self.attachSupsub(context, nucleus, type)
AttachSupsub(self, ctx, nucleus) ==
    \E r \in {attachSupsub(ctx, self, Pass(NoIdsSettings, id, <<>>), nucleus,
                             nucleus.type)} :
       /\ id' = r.S.id
       /\ call' = [NoCall EXCEPT !.op = "attachSupsub", !.self = self, !.ctx = ctx,
                                 !.nucleus = nucleus, !.span = r.span]
       /\ nops' = nops + 1
       /\ TreeUnchanged

\* ---- lists of atoms: Atom.render over a list, once and again
RenderInit ==
    \E sh \in {s \in Shapes : s.nucleus = 2 /\ Cardinality(Filled(s)) <= 1
                                /\ (s.sibling \/ Content(s) # {})},
       sel \in SUBSET {2, 3}, kind2 \in {"Atom", "null"},
       kind3 \in {"Atom", "null", "empty"}, value3 \in {<<"1">>, ZeroWidthSpace},
       mode \in {"math", "text"} :
        ShapeInit(sh, [n \in Nodes |->
            [Valued[n] EXCEPT !.isSelected = n \in sel,
                              !.mode = IF n \in {2, 3} THEN mode ELSE @,
                              !.render = IF n = 2 THEN kind2
                                         ELSE IF n = 3 THEN kind3 ELSE "Atom",
                              !.value = IF n = 3 THEN value3 ELSE @]], Atoms)

\* the contexts of the calls: a style and a size with those of the parent
ListContexts ==
    {Context(st[1], st[2], sz[1], sz[2], FontMetrics, Glyph(Rat(7, 10), Rat(2, 10))) :
        st \in {<<textstyle, textstyle>>, <<4, textstyle>>, <<6, displaystyle>>},
        sz \in {<<"size5", "size5">>, <<"size1", "size5">>}}

\* context.atomIdsSettings of the calls, with the ids Math.random() gives
Seeded(seed, groupNumbers) ==
    [NoIdsSettings EXCEPT !.present = TRUE, !.numeric = TRUE, !.seed = seed,
                          !.groupNumbers = groupNumbers]
IdsArgs ==
    {<<ais, <<>>>> : ais \in {NoIdsSettings, Seeded(0, FALSE), Seeded(35, FALSE),
                              Seeded(0, TRUE)}}
        \cup {<<[NoIdsSettings EXCEPT !.present = TRUE], r>> : r \in {<<<<"r", "a">>, <<"r", "b">>>>,
                                       <<<<"r", "a">>, <<"r", "a">>>>}}

\* the lists a caller renders: no list, the empty list, one atom, a branch,
\* a branch without its 'first' atom
RenderLists ==
    {NullList, <<>>} \cup {<<n>> : n \in {2, 3}}
        \cup UNION {UNION {{branches[n][b], Tail(branches[n][b])} :
                                b \in DOMAIN branches[n]} : n \in Atoms}

\* the second pass is over the same list with the same context and settings
RenderNext ==
    /\ nops < MaxOps
    /\ \E ctx \in ListContexts, atoms \in RenderLists, ids \in IdsArgs :
           /\ nops > 0 => /\ ctx = call.ctx /\ atoms = call.atoms
                          /\ ids[1] = call.ais /\ ids[2] = call.random
           /\ RenderList(ctx, atoms, ids[1], ids[2])

SpecRender == RenderInit /\ [][RenderNext]_vars

\* ---- one atom with scripts: render and attachSupsub, one call
SupsubInit ==
    \E sh \in Shapes, caret \in {"", "insert"}, limits \in {"", "limits"},
       kind \in {"", "textord", "surd"} :
        ShapeInit(sh, [n \in Nodes |->
            [Valued[n] EXCEPT !.type = IF n = sh.nucleus THEN kind ELSE @,
                              !.caret = IF n = sh.nucleus THEN caret ELSE @,
                              !.limits = IF n = sh.nucleus THEN limits ELSE @]], Atoms)

Glyphs == {Glyph(Rat(7, 10), Rat(2, 10)), Glyph(Rat(9, 10), Zero),
           Glyph(Rat(9, 7), Zero), Glyph(Rat(1, 10), Zero)}
SupsubContexts ==
    {Context(st, st, "size5", "size5", m, g) :
        st \in {displaystyle, textstyle, 3, 7}, m \in {FontMetrics, WideMetrics},
        g \in Glyphs}

SupsubNext ==
    /\ call.op = "none"
    /\ \E self \in {2, 3} :
           /\ parent[self] = 1
           /\ \/ \E ctx \in SupsubContexts : RenderAtom(self, ctx, NoIdsSettings, <<>>)
              \/ \E ctx \in SupsubContexts, g \in Glyphs :
                     AttachSupsub(self, ctx,
                         [EmptySpan EXCEPT !.src = self, !.type = type(self),
                                           !.height = g.height, !.depth = g.depth])

SpecSupsub == SupsubInit /\ [][SupsubNext]_vars

\* ---- runs of digits and of text: Atom.render over a list of atoms that are
\* not in a tree, one call.  The three atoms are 'mord' atoms: a digit, a
\* letter in text mode, a letter in math mode or a digit in text mode.  Atom 2
\* is the second atom of the list, or the content of a branch of atom `at`;
\* with `bare`, atom 3 has a subscript that holds only its 'first' atom.
GroupProfiles ==
    {[mode |-> "math", value |-> <<"1">>], [mode |-> "text", value |-> <<"x">>],
     [mode |-> "math", value |-> <<"x">>], [mode |-> "text", value |-> <<"1">>]}
GroupInit ==
    \E where \in {"list", "body", "superscript", "subscript"}, at \in {1, 3},
       bare \in BOOLEAN, profile \in [Atoms -> GroupProfiles] :
        /\ where = "list" => at = 1
        /\ bare => ~(at = 3 /\ where = "subscript")
        /\ \E inside \in {where # "list"} :
           \E firstOf2 \in {NumAtoms + 1},
              firstOf3 \in {IF inside THEN NumAtoms + 2 ELSE NumAtoms + 1} :
            /\ parent = [n \in Nodes |->
                             IF inside /\ n \in {2, firstOf2} THEN at
                             ELSE IF bare /\ n = firstOf3 THEN 3
                             ELSE Null]
            /\ treeBranch = [n \in Nodes |->
                                 IF inside /\ n \in {2, firstOf2} THEN where
                                 ELSE IF bare /\ n = firstOf3 THEN "subscript"
                                 ELSE Undefined]
            /\ branches = [n \in Nodes |->
                               The({IF bare /\ n = 3
                                    THEN Put(own, "subscript", <<firstOf3>>)
                                    ELSE own :
                                       own \in {IF inside /\ n = at
                                                THEN Put(NoBranches, where,
                                                         <<firstOf2, 2>>)
                                                ELSE NoBranches}})]
            /\ nfirst = (IF inside THEN 1 ELSE 0) + (IF bare THEN 1 ELSE 0)
        /\ _isDirty = [n \in Nodes |-> FALSE]
        /\ latex = [n \in Nodes |-> n \in Atoms]
        /\ _children = [n \in Nodes |-> NullList]
        /\ attrs = [n \in Nodes |->
                        IF n \in Atoms
                        THEN [DefaultAttrs EXCEPT !.type = "mord",
                                                  !.mode = profile[n].mode,
                                                  !.value = profile[n].value]
                        ELSE DefaultAttrs]
        /\ id = [n \in Nodes |-> <<>>]
        /\ call = NoCall
        /\ nops = 0
        /\ lastOp = NoOp

\* the list is the atoms that are in no branch, in their order
GroupNext ==
    /\ call.op = "none"
    /\ \E ais \in {Seeded(0, TRUE), Seeded(35, TRUE), Seeded(0, FALSE)} :
           RenderList(DefaultContext,
                      SelectSeq(<<1, 2, 3>>, LAMBDA n : parent[n] = Null), ais, <<>>)

SpecGroup == GroupInit /\ [][GroupNext]_vars

\* ---- serialization: Atom.toLatex of one atom, one call
LatexInit ==
    \E sh \in Shapes, cached \in SUBSET Atoms, command \in {<<>>, <<"\\", "c">>},
       override \in BOOLEAN :
        ShapeInit(sh, [n \in Nodes |->
            [Valued[n] EXCEPT
                !.command = IF n = sh.nucleus THEN command ELSE @,
                !.toLatexOverride = IF n = sh.nucleus THEN override ELSE @]], cached)

\* Atom.toLatex(self, {expandMacro})
ToLatex(self, expandMacro) ==
    /\ call' = [NoCall EXCEPT !.op = "Atom.toLatex", !.self = self,
                              !.expandMacro = expandMacro,
                              !.text = Atom_toLatex(self, expandMacro)]
    /\ nops' = nops + 1
    /\ UNCHANGED id
    /\ TreeUnchanged

LatexNext ==
    /\ call.op = "none"
    /\ \E self \in Atoms, expandMacro \in BOOLEAN : ToLatex(self, expandMacro)

SpecLatex == LatexInit /\ [][LatexNext]_vars

\* ------------------------------------------------------- the claims' terms
BranchAddrs == {NAMED_BRANCHES[i] : i \in 1..Len(NAMED_BRANCHES)} \cup {ColRow}

\* the atoms in branch b of p
Elements(p, b) == IF b \in DOMAIN branches[p] THEN Range(branches[p][b]) ELSE {}

\* the k-th atom up the parent references from n
RECURSIVE Up(_, _)
Up(n, k) == IF k = 0 \/ n = Null THEN n ELSE Up(parent[n], k - 1)

\* following parent references from n ends
InTree(n) == Up(n, NumNodes) = Null

ProperAncestors(n) == {Up(n, k) : k \in 1..NumNodes} \ {Null}

\* the deepest atom of a set of atoms that lie on one parent chain
Deepest(S) ==
    IF S = {} THEN Null
    ELSE CHOOSE m \in S :
             \A x \in S : Cardinality(ProperAncestors(x)) <= Cardinality(ProperAncestors(m))

NotFirst(n) == type(n) # "first"

TreeVars == <<parent, treeBranch, _isDirty, branches>>

\* C1: every branch that exists holds an atom of type 'first' at index 0.
C1_FirstAtIndex0 ==
    \A p \in Live : \A b \in DOMAIN branches[p] :
        /\ Len(branches[p][b]) > 0
        /\ type(branches[p][b][1]) = "first"

\* C2: c.parent = p and c.treeBranch = b exactly when c is an element of branch
\* b of p, and every atom is an element of at most one branch of one atom.
C2_ExclusiveOwnership ==
    /\ \A c \in Live, p \in Live, b \in BranchAddrs :
           (parent[c] = p /\ treeBranch[c] = b) <=> c \in Elements(p, b)
    /\ \A c \in Live :
           Cardinality({pb \in Live \X BranchAddrs : c \in Elements(pb[1], pb[2])}) <= 1

\* the calls C3 names (removeChild of an atom that is not a 'first')
C3_Mutation(op) ==
    \/ op.op \in {"setChildren", "addChild", "addChildBefore", "addChildAfter",
                  "addChildren", "addChildrenAfter", "removeBranch"}
    \/ op.op = "removeChild" /\ type(op.child) # "first"

\* the calls among them that change nothing by design: setChildren of null or
\* on an address that is no named branch, addChildren of an empty list
C3_Declined(op) ==
    \/ op.op = "setChildren" /\ (op.children = NullList \/ ~isNamedBranch(op.branch))
    \/ op.op = "addChildren" /\ op.children = <<>>

\* the parent references as they stand when the call sets the flag:
\* removeBranch has by then detached the elements of the branch
C3_ParentAtFlag(op) ==
    IF op.op = "removeBranch"
    THEN [m \in Nodes |-> IF m \in Elements(op.self, op.branch) THEN Null ELSE parent[m]]
    ELSE parent

\* C3 (as stated): after any of the calls on p that returns, p and every ancestor
\* of p are dirty and no other atom's flag has changed.
C3_DirtyChainOriginal ==
    [][(C3_Mutation(lastOp') /\ ~lastOp'.threw) =>
          \A m \in Nodes :
              IF m = lastOp'.self \/ m \in ProperAncestors(lastOp'.self)
              THEN _isDirty'[m]
              ELSE _isDirty'[m] = _isDirty[m]]_vars

\* C3 (amended): after any of the calls on p that returns and is not declined,
\* p and every atom on p's parent chain, as it stands when the flag is set, are
\* dirty and no other atom's flag has changed.
C3_DirtyChain ==
    [][(C3_Mutation(lastOp') /\ ~lastOp'.threw /\ ~C3_Declined(lastOp')) =>
          \A m \in Nodes :
              IF m = lastOp'.self
                 \/ m \in ParentChain(C3_ParentAtFlag(lastOp'), lastOp'.self)
              THEN _isDirty'[m]
              ELSE _isDirty'[m] = _isDirty[m]]_vars

\* a call on an atom with a parent has set the flag of both, the parent's from clear
C3_Witness ==
    /\ C3_Mutation(lastOp) /\ ~lastOp.threw /\ ~C3_Declined(lastOp)
    /\ parent[lastOp.self] \in Nodes
    /\ parent[lastOp.self] # lastOp.self
    /\ _isDirty[lastOp.self] /\ _isDirty[parent[lastOp.self]]
    /\ nops = 1

\* C4: the parent references have no cycle and no atom of type 'root' is an
\* element of a branch.
C4_NoCycleNoRootChild ==
    /\ \A n \in Live : InTree(n)
    /\ \A p \in Live, b \in BranchAddrs : \A c \in Elements(p, b) : type(c) # "root"

\* C5: hasEmptyBranch(b) is true exactly when the branch is absent or holds
\* only the 'first' atom; it is false for a branch of two or more atoms.
C5_HasEmptyBranch ==
    \A n \in Live, b \in BranchAddrs :
        hasEmptyBranch(Tree, n, b) <=>
            \/ ~hasBranch(Tree, n, b)
            \/ /\ Len(branches[n][b]) = 1
               /\ type(branches[n][b][1]) = "first"

\* C6: removeChild of a 'first' atom of the node changes no branch, no parent,
\* no treeBranch and no flag.
C6_RemoveFirstNoOp ==
    [][(/\ lastOp'.op = "removeChild"
        /\ type(lastOp'.child) = "first"
        /\ \E b \in BranchAddrs : lastOp'.child \in Elements(lastOp'.self, b)) =>
          (~lastOp'.threw /\ UNCHANGED TreeVars)]_vars

\* removeChild was called with the 'first' atom of a branch that has content
C6_Witness ==
    /\ lastOp.op = "removeChild"
    /\ type(lastOp.child) = "first"
    /\ \E b \in BranchAddrs :
           /\ lastOp.child \in Elements(lastOp.self, b)
           /\ Len(branches[lastOp.self][b]) >= 2
           /\ branches[lastOp.self][b][1] = lastOp.child

\* C7: setChildren with a list whose first element is a 'first' atom is
\* rejected: branches, flags, parent and treeBranch stay as they were.
C7_SetChildrenRejectsFirst ==
    [][(/\ lastOp'.op = "setChildren"
        /\ lastOp'.children # NullList
        /\ lastOp'.children # <<>>
        /\ type(Head(lastOp'.children)) = "first") =>
          UNCHANGED TreeVars]_vars

\* C8: removeBranch(name) on a node whose branch exists returns the elements
\* that are not 'first' atoms in their order, each with parent and treeBranch
\* cleared, leaves the branch absent and the other branches as they were, and
\* marks the node dirty.
C8_RemoveBranch ==
    [][(lastOp'.op = "removeBranch" /\ hasBranch(Tree, lastOp'.self, lastOp'.branch)) =>
          /\ ~lastOp'.threw
          /\ lastOp'.ret = SelectSeq(branches[lastOp'.self][lastOp'.branch], NotFirst)
          /\ \A x \in Range(lastOp'.ret) :
                 parent'[x] = Null /\ treeBranch'[x] = Undefined
          /\ lastOp'.branch \notin DOMAIN branches'[lastOp'.self]
          /\ \A b \in (DOMAIN branches[lastOp'.self]) \ {lastOp'.branch} :
                 /\ b \in DOMAIN branches'[lastOp'.self]
                 /\ branches'[lastOp'.self][b] = branches[lastOp'.self][b]
          /\ _isDirty'[lastOp'.self]]_vars

C10_Kinds == {"minner", "mbin", "mrel", "mpunct", "mopen", "mclose", "textord"}

\* the initial base element as C10 describes it: descend to the element after
\* the 'first' atom of the body while the body holds one
RECURSIVE C10_Base(_, _)
C10_Base(n, fuel) ==
    IF fuel > 0 /\ "body" \in DOMAIN branches[n] /\ Len(branches[n]["body"]) >= 2
    THEN C10_Base(branches[n]["body"][2], fuel - 1)
    ELSE n

\* C10: isCharacterBox() is true exactly when the initial base element has one
\* of the kinds, and false for every other kind.
C10_IsCharacterBox ==
    \A n \in Live :
        isCharacterBox(Tree, n) =
            IF type(C10_Base(n, NumNodes)) \in C10_Kinds THEN "true" ELSE "false"

\* the list without the atom c
Without(l, c) == LET Keep(x) == x # c IN SelectSeq(l, Keep)

\* c stands immediately before s in some branch
Adjacent(br, c, s) ==
    \E p \in Nodes : \E b \in DOMAIN br[p] :
        \E i \in 1..(Len(br[p][b]) - 1) : br[p][b][i] = c /\ br[p][b][i + 1] = s

\* what C17 promises after p.addChildBefore(c, s) or p.addChildAfter(c, s)
C17_Placed(op) ==
    /\ IF op.op = "addChildBefore" THEN Adjacent(branches', op.child, op.ref)
                                   ELSE Adjacent(branches', op.ref, op.child)
    /\ \A b \in DOMAIN branches[op.self] :
           /\ b \in DOMAIN branches'[op.self]
           /\ Without(branches'[op.self][b], op.child)
                  = Without(branches[op.self][b], op.child)
    /\ parent'[op.child] = op.self
    /\ treeBranch'[op.child] = treeBranch'[op.ref]
    /\ _isDirty'[op.self]

\* C17 (as stated): after p.addChildBefore(c, s) (addChildAfter) c stands
\* immediately before (after) s in the branch of s, the other elements keep
\* their order, c.parent = p, c.treeBranch = s.treeBranch and p is dirty.
C17_InsertAtSiblingOriginal ==
    [][(lastOp'.op \in {"addChildBefore", "addChildAfter"} /\ ~lastOp'.threw) =>
          C17_Placed(lastOp')]_vars

\* C17 (amended): the same, for an s that is an element of the branch of p
\* that s.treeBranch names.
C17_InsertAtSibling ==
    [][(/\ lastOp'.op \in {"addChildBefore", "addChildAfter"} /\ ~lastOp'.threw
        /\ lastOp'.ref \in Elements(lastOp'.self, treeBranch[lastOp'.ref])) =>
          C17_Placed(lastOp')]_vars

\* addChildBefore has put an atom between the 'first' atom and a sibling
C17_Witness ==
    /\ lastOp.op = "addChildBefore" /\ ~lastOp.threw
    /\ lastOp.child # lastOp.ref /\ type(lastOp.ref) # "first"
    /\ hasBranch(Tree, lastOp.self, lastOp.branch)
    /\ \E i \in 2..(Len(branches[lastOp.self][lastOp.branch]) - 1) :
           /\ branches[lastOp.self][lastOp.branch][i] = lastOp.child
           /\ branches[lastOp.self][lastOp.branch][i + 1] = lastOp.ref

\* the atoms a call was passed as children
C18_Passed(op) == (Range(op.children) \cup {op.child}) \ {Null}

\* C18: createBranch, setChildren, addChild and addChildren on an address that
\* is not a named branch change no branch, no dirty flag and neither parent nor
\* treeBranch of the atoms passed.
C18_RejectsUnnamedBranch ==
    [][(/\ lastOp'.op \in {"createBranch", "setChildren", "addChild", "addChildren"}
        /\ ~isNamedBranch(lastOp'.branch)) =>
          /\ ~lastOp'.threw
          /\ UNCHANGED <<branches, _isDirty>>
          /\ \A x \in C18_Passed(lastOp') :
                 parent'[x] = parent[x] /\ treeBranch'[x] = treeBranch[x]]_vars

\* the list C19 describes: the branches in the order above, body, below,
\* superscript, subscript, each child's descendants before the child
RECURSIVE C19_Flat(_, _, _)
C19_Flat(br, l, fuel) ==
    IF l = <<>> \/ fuel = 0 THEN <<>>
    ELSE LET x == Head(l)
             own == [i \in 1..Len(NAMED_BRANCHES) |->
                        IF NAMED_BRANCHES[i] \in DOMAIN br[x]
                        THEN br[x][NAMED_BRANCHES[i]] ELSE <<>>]
         IN C19_Flat(br, own[1] \o own[2] \o own[3] \o own[4] \o own[5], fuel - 1)
            \o <<x>> \o C19_Flat(br, Tail(l), fuel)

\* the list of the descendants of n
C19_Descendants(br, n) ==
    LET l == C19_Flat(br, <<n>>, NumNodes + 1) IN SubSeq(l, 1, Len(l) - 1)

\* n and the atoms below it
RECURSIVE C19_Reach(_, _, _)
C19_Reach(br, S, k) ==
    IF k = 0 THEN S
    ELSE C19_Reach(br,
             S \cup UNION {UNION {Range(br[m][b]) : b \in DOMAIN br[m]} : m \in S},
             k - 1)
C19_Subtree(br, n) == C19_Reach(br, {n}, NumNodes)

\* C19: a cached _children is the list of the descendants as the branches stand,
\* and a call that changes a branch of an atom or of one of its descendants
\* leaves the atom without cached latex.
C19_CachesCoherent ==
    [][/\ \A n \in Nodes :
              _children'[n] # NullList => _children'[n] = C19_Descendants(branches', n)
       /\ \A m \in Nodes : branches'[m] # branches[m] =>
              \A n \in Nodes :
                  latex'[n] => m \notin C19_Subtree(branches, n) \cup C19_Subtree(branches', n)]_vars

\* ---- rendering
\* the atoms of a list whose render returns null or an empty array
C11_NoBox(atoms) ==
    \A i \in 1..Len(atoms) : attrs[atoms[i]].render \in {"null", "empty"}

\* C11: Atom.render returns null for an absent list, an empty array for a list
\* of length 0, and for a list of one or more atoms that give no box it returns
\* null, never an empty array.
C11_NullNotEmpty ==
    call.op = "Atom.render" =>
        /\ call.atoms = NullList => call.res = Absent
        /\ call.atoms = <<>> => call.res = Boxes(<<>>)
        /\ call.atoms \notin {NullList, <<>>} =>
               /\ call.res # Boxes(<<>>)
               /\ C11_NoBox(call.atoms) => call.res = Absent
C11_Witness ==
    /\ call.op = "Atom.render"
    /\ Len(call.atoms) = 2
    /\ C11_NoBox(call.atoms)
    /\ \E i \in 1..2 : attrs[call.atoms[i]].render = "empty"
    /\ call.res = Absent

\* ---- scripts
C12_BothEmpty(self) ==
    hasEmptyBranch(Tree, self, "superscript") /\ hasEmptyBranch(Tree, self, "subscript")
C12_BothAbsent(self) ==
    ~hasBranch(Tree, self, "superscript") /\ ~hasBranch(Tree, self, "subscript")
\* the span is the nucleus and the box of the scripts in one box
C12_Wrapped(span, nucleus) ==
    /\ Len(span.children) = 2
    /\ span.children[1] = nucleus
    /\ span.children[2].type = "msubsup"
\* the result of render is one span, made by makeSpan() of the atom
C12_Bare(res, self) ==
    ~res.absent /\ Len(res.list) = 1 /\ res.list[1].src = self

\* C12 as stated: attachSupsub returns the nucleus itself when the
\* superscript and the subscript are both empty (absent or holding only the
\* 'first' atom), and then render returns the bare nucleus.
C12_BareWhenEmptyOriginal ==
    /\ call.op = "attachSupsub" /\ C12_BothEmpty(call.self) => call.span = call.nucleus
    /\ call.op = "render" /\ C12_BothEmpty(call.self) => C12_Bare(call.res, call.self)

\* C12 amended: attachSupsub returns the nucleus itself when the superscript
\* and the subscript are both absent, and then render returns the bare
\* nucleus; when one of them is present, even with only its 'first' atom,
\* attachSupsub returns a box of the nucleus and of the box of the scripts.
C12_BareWhenAbsent ==
    /\ call.op = "attachSupsub" =>
           IF C12_BothAbsent(call.self) THEN call.span = call.nucleus
           ELSE C12_Wrapped(call.span, call.nucleus)
    /\ call.op = "render" /\ C12_BothAbsent(call.self) => C12_Bare(call.res, call.self)
C12_Witness ==
    /\ call.op = "attachSupsub"
    /\ C12_BothAbsent(call.self)
    /\ hasBranch(Tree, call.self, "body")
    /\ call.span = call.nucleus

\* the atom whose type decides: the atom itself, or the atom after the
\* 'first' atom of its body
C13_Base(self) ==
    IF hasEmptyBranch(Tree, self, "body") THEN self ELSE branches[self]["body"][2]
C13_CharacterBox(self) ==
    type(C13_Base(self)) \in {"minner", "mbin", "mrel", "mpunct", "mopen", "mclose",
                              "textord"}
C13_SubscriptOnly ==
    /\ call.op = "attachSupsub"
    /\ hasBranch(Tree, call.self, "subscript")
    /\ ~hasBranch(Tree, call.self, "superscript")
\* the vertical stack of the scripts, the height hs of the box of the
\* subscript, and hs - 0.8 xHeight
C13_Stack == call.span.children[2].children[1]
C13_Metrics == call.ctx.metrics[call.ctx.mathstyle]
C13_ByXHeight ==
    RatSub(C13_Stack.children[1].height, RatMul(Rat(8, 10), C13_Metrics.xHeight))

\* C13: with a subscript and no superscript the shift passed to the vertical
\* stack is max(sub1, hs - 0.8 xHeight) for a character-box nucleus and
\* max(depth(nucleus) + subDrop, sub1, hs - 0.8 xHeight) for another nucleus;
\* sub1 = 0.3, xHeight = 0.4 and hs = 0.9 give 0.58.
C13_SubscriptShift ==
    C13_SubscriptOnly =>
        /\ C13_Stack.pos = "shift"
        /\ C13_Stack.shifts =
               <<IF C13_CharacterBox(call.self)
                 THEN RatMax(C13_Metrics.sub1, C13_ByXHeight)
                 ELSE RatMax3(RatAdd(call.nucleus.depth, C13_Metrics.subDrop),
                              C13_Metrics.sub1, C13_ByXHeight)>>
        /\ (/\ C13_CharacterBox(call.self)
            /\ C13_Metrics.sub1 = Rat(3, 10)
            /\ C13_Metrics.xHeight = Rat(4, 10)
            /\ C13_Stack.children[1].height = Rat(9, 10))
               => C13_Stack.shifts = <<Rat(58, 100)>>
C13_Witness ==
    /\ C13_SubscriptOnly
    /\ C13_CharacterBox(call.self)
    /\ C13_Metrics.sub1 = Rat(3, 10)
    /\ C13_Metrics.xHeight = Rat(4, 10)
    /\ C13_Stack.children[1].height = Rat(9, 10)
    /\ C13_Stack.shifts = <<Rat(58, 100)>>

\* ---- rescaling
\* the ratio of the multipliers of the style and of the size of a context to
\* those of the parent
C14_StyleRatio(ctx) ==
    RatDiv(sizeMultiplier(ctx.mathstyle), sizeMultiplier(ctx.parentMathstyle))
C14_SizeRatio(ctx) ==
    RatDiv(SIZING_MULTIPLIER[ctx.size], SIZING_MULTIPLIER[ctx.parentSize])
\* the context with the style and the size of the parent equal to its own
C14_AtParent(ctx) ==
    [ctx EXCEPT !.parentMathstyle = ctx.mathstyle, !.parentSize = ctx.size]

\* C14: the height and the depth of every box Atom.render returns are those
\* of the same list rendered with the parent's style and size equal to the
\* context's own, multiplied by the ratio of the style multipliers and by the
\* ratio of the size multipliers; with a style of half the parent's multiplier
\* and the parent's size they are exactly half.
C14_Rescaled ==
    [][call'.op = "Atom.render" /\ ~call'.res.absent =>
          LET ctx == call'.ctx
              plain == Atom_render(C14_AtParent(ctx), call'.atoms,
                                   Pass(call'.ais, id, call'.random)).res.list
              scaled == call'.res.list
              factor == RatMul(C14_StyleRatio(ctx), C14_SizeRatio(ctx))
          IN /\ Len(scaled) = Len(plain)
             /\ \A i \in 1..Len(scaled) :
                    /\ scaled[i].height = RatMul(plain[i].height, factor)
                    /\ scaled[i].depth = RatMul(plain[i].depth, factor)
                    /\ (C14_StyleRatio(ctx) = Rat(1, 2) /\ ctx.size = ctx.parentSize) =>
                           /\ RatAdd(scaled[i].height, scaled[i].height) = plain[i].height
                           /\ RatAdd(scaled[i].depth, scaled[i].depth) = plain[i].depth]_vars

\* ---- serialization
\* the characters the atoms under self contribute when self is serialized
\* by the default emitter: the symbol of an atom without a body, and for an
\* atom with a body those of the body and of the scripts
RECURSIVE C15_Symbols(_, _)
C15_Symbols(self, fuel) ==
    IF fuel = 0 \/ attrs[self].toLatexOverride THEN {}
    ELSE IF hasBranch(Tree, self, "body")
    THEN UNION {C15_Symbols(c, fuel - 1) :
                   c \in UNION {Range(branch(Tree, self, b)) :
                                   b \in {"body", "superscript", "subscript"}}}
    ELSE IF type(self) # "first" /\ attrs[self].value \in SymbolTable
    THEN {attrs[self].value[1]}
    ELSE {}

RECURSIVE C16_Bound(_, _)
C16_Bound(atoms, fuel) ==
    IF atoms = <<>> \/ atoms = NullList \/ fuel = 0 THEN <<>>
    ELSE LET a == Head(atoms)
             own == IF type(a) # "first" /\ attrs[a].value # ZeroWidthSpace
                    THEN <<a>> ELSE <<>>
             scripts == IF attrs[a].limits = ""
                        THEN C16_Bound(branch(Tree, a, "superscript"), fuel - 1)
                                 \o C16_Bound(branch(Tree, a, "subscript"), fuel - 1)
                        ELSE <<>>
         IN (IF attrs[a].render = "Atom"
             THEN C16_Bound(branch(Tree, a, "body"), fuel - 1) \o own \o scripts
             ELSE <<>>)
                \o C16_Bound(Tail(atoms), fuel)

\* C16: in a pass with a numeric seed the k-th bind of an atom that is not a
\* 'first' atom and whose value is not the zero-width space gives the atom
\* the seed plus k - 1 in base 36 (or, with groupNumbers, the id of an atom
\* bound before it), and the seed grows by one with each bind; a 'first' atom
\* never has an id; a second pass over the same tree with the same seed gives
\* every atom the id it has.
C16_SeededIds ==
    [][call'.op = "Atom.render" /\ call'.ais.present /\ call'.ais.numeric =>
          LET bound == C16_Bound(call'.atoms, NumNodes)
              seed == call'.ais.seed
          IN /\ call'.seed = seed + Len(bound)
             /\ \A k \in 1..Len(bound) :
                    \/ id'[bound[k]] = toString36(seed + k - 1)
                    \/ /\ call'.ais.groupNumbers
                       /\ \E j \in 1..(k - 1) : id'[bound[k]] = id'[bound[j]]
             /\ \A n \in Nodes : n \notin Range(bound) => id'[n] = id[n]
             /\ \A n \in Nodes : type(n) = "first" => id'[n] = <<>>
             /\ call.op = "Atom.render" => id' = id /\ call'.res = call.res]_vars
C16_Witness ==
    /\ nops = 2
    /\ call.op = "Atom.render"
    /\ call.ais = Seeded(35, FALSE)
    /\ Len(call.atoms) = 3
    /\ id[2] = <<"z">>
    /\ id[3] = <<"1", "0">>
    /\ call.seed = 37

\* ---- selection
\* the atom a box of the result was made for (the box of an atom with
\* scripts holds the box of the atom first)
C20_Source(box) == IF box.src # Null THEN box.src ELSE box.children[1].src
\* the atoms from the i-th to the j-th of the list are all selected
C20_Run(atoms, i, j) == \A k \in i..j : attrs[atoms[k]].isSelected
\* where an atom is in the list (no atom is in a list of the model twice)
C20_Index(atoms, a) == CHOOSE i \in 1..Len(atoms) : atoms[i] = a

\* C20: when Atom.render of two or more atoms displays the selection, every
\* box of a selected atom is marked selected, the boxes between two boxes of
\* one run of selected atoms are boxes of atoms of that run, and a box of an
\* atom of a run comes after the boxes of the atoms before it in the list and
\* before the boxes of the atoms after it.
C20_SelectionContiguous ==
    (/\ call.op = "Atom.render"
     /\ call.atoms # NullList /\ Len(call.atoms) >= 2
     /\ ~(call.ais.present /\ call.ais.groupNumbers)
     /\ ~call.res.absent) =>
        LET boxes == call.res.list
            atoms == call.atoms
            at(p) == C20_Index(atoms, C20_Source(boxes[p]))
        IN /\ \A p \in 1..Len(boxes) :
                  attrs[C20_Source(boxes[p])].isSelected => boxes[p].isSelected
           /\ \A p \in 1..Len(boxes), q \in 1..Len(boxes), r \in 1..Len(boxes) :
                  (p < q /\ q < r /\ at(p) <= at(r) /\ C20_Run(atoms, at(p), at(r))) =>
                      (at(p) <= at(q) /\ at(q) <= at(r))
           /\ \A p \in 1..Len(boxes), q \in 1..Len(boxes) :
                  (/\ attrs[atoms[at(p)]].isSelected \/ attrs[atoms[at(q)]].isSelected
                   /\ at(p) < at(q)) => p < q
C20_Witness ==
    /\ call.op = "Atom.render"
    /\ call.atoms # NullList /\ Len(call.atoms) = 3
    /\ ~call.ais.present
    /\ attrs[call.atoms[2]].isSelected /\ ~attrs[call.atoms[3]].isSelected
    /\ ~call.res.absent /\ Len(call.res.list) = 3
    /\ C20_Source(call.res.list[2]) = call.atoms[2]
    /\ call.res.list[2].isSelected
    /\ ~call.res.list[3].isSelected

\* ---- the category of the box
\* the box the default render of an atom returns
C21_Box == call.res.list[1]
\* the type is a span type and is not 'textord'
C21_Recognised(self) == isSpanType(type(self)) /\ type(self) # "textord"

\* C21 as stated: the box the default render of an atom returns has the type
\* of the atom when that type is a span type, and the type 'mord' when the
\* type of the atom is not a span type or is 'textord'.
C21_KindCategory ==
    call.op = "render" =>
        C21_Box.type = IF C21_Recognised(call.self) THEN type(call.self) ELSE "mord"

\* ---- a superscript and a subscript
C22_Both ==
    /\ call.op = "attachSupsub"
    /\ hasBranch(Tree, call.self, "superscript")
    /\ hasBranch(Tree, call.self, "subscript")
\* the vertical stack, the boxes of the subscript and of the superscript in it
C22_Stack == call.span.children[2].children[1]
C22_Sub == C22_Stack.children[1]
C22_Sup == C22_Stack.children[2]
\* 4 x defaultRuleThickness
C22_Least == RatMul(Rat(4, 1), C13_Metrics.defaultRuleThickness)
\* the shifts before the adjustments: rules 18a and 18c, and the maxima of 18e
C22_SupShift ==
    RatMax3(IF C13_CharacterBox(call.self) THEN Zero
            ELSE RatSub(call.nucleus.height, C13_Metrics.supDrop),
            IF call.ctx.mathstyle = displaystyle THEN C13_Metrics.sup1
            ELSE IF cramped(call.ctx.mathstyle) THEN C13_Metrics.sup3
            ELSE C13_Metrics.sup2,
            RatAdd(C22_Sup.depth, RatMul(Rat(1, 4), C13_Metrics.xHeight)))
C22_SubShift ==
    RatMax(IF C13_CharacterBox(call.self) THEN Zero
           ELSE RatAdd(call.nucleus.depth, C13_Metrics.subDrop),
           C13_Metrics.sub2)
\* the shifts passed to the vertical stack: up for the superscript, down for
\* the subscript
C22_FinalSup == RatNeg(C22_Stack.shifts[2])
C22_FinalSub == C22_Stack.shifts[1]
\* (supShift - depth(sup)) - (height(sub) - subShift)
C22_Gap(supShift, subShift) ==
    RatSub(RatSub(supShift, C22_Sup.depth), RatSub(C22_Sub.height, subShift))
C22_Close == RatLess(C22_Gap(C22_SupShift, C22_SubShift), C22_Least)

\* C22: with a superscript and a subscript the shifts passed to the vertical
\* stack leave a gap (supShift - depth(sup)) - (height(sub) - subShift) of at
\* least 4 x defaultRuleThickness, also after the psi adjustment, and of
\* exactly that much when the gap of the unadjusted shifts was below it.
C22_LeastGap ==
    C22_Both =>
        /\ C22_Stack.pos = "individualShift"
        /\ ~RatLess(C22_Gap(C22_FinalSup, C22_FinalSub), C22_Least)
        /\ C22_Close => C22_Gap(C22_FinalSup, C22_FinalSub) = C22_Least
C22_Witness ==
    /\ C22_Both
    /\ C22_Close
    /\ C22_FinalSup # C22_SupShift
    /\ C22_Sub.height # Zero
    /\ C22_Gap(C22_FinalSup, C22_FinalSub) = C22_Least

\* psi = 0.8 xHeight - (supShift - depth(sup)), and the shift of the
\* subscript that makes the gap the least gap
C23_Psi ==
    RatSub(RatMul(Rat(8, 10), C13_Metrics.xHeight), RatSub(C22_SupShift, C22_Sup.depth))
C23_Pushed == RatAdd(RatSub(C22_Least, RatSub(C22_SupShift, C22_Sup.depth)), C22_Sub.height)
C23_Hug == C22_Both /\ C22_Close /\ RatLess(Zero, C23_Psi)

\* C23 as stated: with both scripts, a gap below the least gap and psi > 0,
\* the shift up of the superscript and the shift down of the subscript both
\* grow by psi.
C23_BothGrowOriginal ==
    C23_Hug =>
        /\ C22_FinalSup = RatAdd(C22_SupShift, C23_Psi)
        /\ C22_FinalSub = RatAdd(C23_Pushed, C23_Psi)

\* C23 amended: with both scripts, a gap below the least gap and psi > 0, the
\* shift up of the superscript grows by psi and the shift down of the
\* subscript, first set to what makes the gap the least gap, shrinks by psi:
\* both scripts move up by psi.
C23_BothUp ==
    C23_Hug =>
        /\ C22_FinalSup = RatAdd(C22_SupShift, C23_Psi)
        /\ C22_FinalSub = RatSub(C23_Pushed, C23_Psi)
C23_Witness ==
    /\ C23_Hug
    /\ ~C13_CharacterBox(call.self)
    /\ C22_FinalSub = RatSub(C23_Pushed, C23_Psi)
    /\ RatLess(C22_FinalSub, C23_Pushed)

\* ---- runs of digits and of text
\* digit for a digit, text for another atom in text mode
C24_Property(a) == IF isDigit(a) THEN "digit" ELSE IF isText(a) THEN "text" ELSE "none"
C24_Eligible(a) ==
    /\ C24_Property(a) # "none"
    /\ hasEmptyBranch(Tree, a, "superscript")
    /\ hasEmptyBranch(Tree, a, "subscript")
\* the atoms from atoms[i] to atoms[j] are in one run
C24_OneRun(atoms, i, j) ==
    \A k \in i..j : C24_Eligible(atoms[k]) /\ C24_Property(atoms[k]) = C24_Property(atoms[i])
\* the first atom of the run of atoms[i]
C24_First(atoms, i) == atoms[CHOOSE j \in 1..i :
                                /\ C24_OneRun(atoms, j, i)
                                /\ \A k \in 1..(j - 1) : ~C24_OneRun(atoms, k, i)]
C24_Grouped ==
    /\ call.op = "Atom.render"
    /\ call.ais.present /\ call.ais.numeric /\ call.ais.groupNumbers
    /\ call.atoms # NullList /\ Len(call.atoms) >= 2

\* C24 as stated: with groupNumbers and a numeric seed, in a render of two or
\* more atoms every atom of a maximal run of adjacent digits (or of adjacent
\* atoms in text mode) whose superscript and subscript are empty has the id of
\* the first atom of the run, and an atom outside the run (not a digit or
\* text, with a superscript or subscript that is not empty, or of the other
\* property) does not have the id of the run.
C24_RunIds ==
    C24_Grouped =>
        \A i \in 1..Len(call.atoms) :
            C24_Eligible(call.atoms[i]) =>
                /\ id[call.atoms[i]] = id[C24_First(call.atoms, i)]
                /\ \A j \in 1..Len(call.atoms) :
                       ~C24_OneRun(call.atoms, IF i < j THEN i ELSE j,
                                               IF i < j THEN j ELSE i) =>
                           id[call.atoms[j]] # id[C24_First(call.atoms, i)]

\* ---- the caret
\* how many of the spans, and of the spans inside them, carry a caret
RECURSIVE C25_Carets(_)
C25_Carets(spans) ==
    IF spans = <<>> THEN 0
    ELSE (IF Head(spans).caret # "" THEN 1 ELSE 0)
             + C25_Carets(Head(spans).children) + C25_Carets(Tail(spans))
C25_HasScripts(self) ==
    hasBranch(Tree, self, "superscript") \/ hasBranch(Tree, self, "subscript")

\* C25 as stated: the default render of an atom with a caret returns boxes of
\* which exactly one carries the caret: the 'msubsup' box of the scripts when
\* the atom has a superscript or a subscript, the box of the nucleus
\* otherwise; whatever the atom's limits.
C25_OneCaret ==
    (call.op = "render" /\ attrs[call.self].caret # "") =>
        /\ C25_Carets(call.res.list) = 1
        /\ IF C25_HasScripts(call.self)
           THEN /\ Len(call.res.list[1].children) = 2
                /\ call.res.list[1].children[2].type = "msubsup"
                /\ call.res.list[1].children[2].caret = attrs[call.self].caret
           ELSE /\ call.res.list[1].src = call.self
                /\ call.res.list[1].caret = attrs[call.self].caret

====
